---- MODULE Spec2Model ----
(***************************************************************************)
(* Workflow graphs of the agentic-bootcamp repository.                     *)
(*                                                                         *)
(*   - the human-in-the-loop (HITL) graph of                               *)
(*     10-Important-Topics/HITL/my_agent/graph.py                          *)
(*   - the DeliveryCommandCenterGraph of                                   *)
(*     11-Enterprise-Project-Demo/src/agents/graph.py                      *)
(*   - the "parallel" pattern of 8-patterns/3_parallel.py                  *)
(*                                                                         *)
(* A Python dict is a function from string keys to values; a text (str)    *)
(* is a sequence of tokens, so that "" is <<>>, + is \o and truthiness is  *)
(* being different from <<>> and from None.  A graph run advances in       *)
(* supersteps: the nodes scheduled for a step run on the same snapshot of  *)
(* the state, their partial updates are merged key by key when all of      *)
(* them have returned, and the edges leaving them schedule the next step.  *)
(***************************************************************************)
EXTENDS Integers, Sequences, FiniteSets, TLC

(***************************************************************************)
(* Bounds of the model.                                                    *)
(***************************************************************************)
\* supersteps a HITL run may take before the graph engine gives up
MaxSteps == 11

(***************************************************************************)
(* Python values.                                                          *)
(***************************************************************************)
\* the value None where a text is expected
None == <<"None">>

\* the dict {}
EmptyDict == [k \in {} |-> <<>>]

\* the value None where a dict is expected (interrupt() resumed with None)
NoneResponse == [None |-> TRUE]

\* d.get(k, default)
Get(d, k, default) == IF k \in DOMAIN d THEN d[k] ELSE default

\* bool(text): neither None nor ""
Truthy(t) == t # None /\ t # <<>>

\* state = update: the update replaces the state
Merge_replace(state, update) == update

\* {**state, **update}: the keys of the update replace, the others stay
Merge(state, update) == update @@ state

\* response or {}
OrEmpty(response) == IF response = NoneResponse THEN EmptyDict ELSE response

(***************************************************************************)
(* Inputs of the HITL graph.                                               *)
(***************************************************************************)
UserInputs == {<<"q1">>, <<"q2">>}

\* contents a model call may return (the empty text included)
LLMTexts == {<<>>, <<"t1">>, <<"t2">>}

\* values a reviewer may resume the paused graph with
Responses ==
    {NoneResponse, EmptyDict,
     [decision |-> "approve"],
     [decision |-> "edit"],
     [decision |-> "edit", edited_text |-> <<"e1">>],
     [decision |-> "edit", edited_text |-> <<>>],
     [decision |-> "edit", edited_text |-> None],
     [decision |-> "reject"],
     [decision |-> "reject", reason |-> <<"r1">>],
     [decision |-> "reject", reason |-> <<"r2">>],
     [decision |-> "later"]}

VARIABLES
    hState,      \* HITL: the graph state (a dict, total=False)
    hNode,       \* HITL: the node scheduled for the next superstep, or "END"
    hStatus,     \* HITL: "running", "interrupted", "done", "failed", "recursion_error"
    hTrace,      \* HITL: the nodes that have run to completion, in order
    hSteps,      \* HITL: supersteps taken
    hPayload,    \* HITL: the payload of the pending interrupt
    hResponse,   \* HITL: the value the run was resumed with
    hUpdate      \* HITL: the update the last node returned

hvars == <<hState, hNode, hStatus, hTrace, hSteps, hPayload, hResponse, hUpdate>>

VARIABLES
    dState,      \* Delivery: the WorkflowState of the run
    dSched,      \* Delivery: nodes scheduled in the current superstep, not started
    dRunning,    \* Delivery: nodes that have started and not returned
    dUpdates,    \* Delivery: node -> the update it returned
    dStepNodes,  \* Delivery: the nodes of the current superstep
    dStatus,     \* Delivery: "running", "done", "invalid_update"
    dStarts,     \* Delivery: node -> the number of times it has started
    dJira,       \* Delivery: the JiraClient methods invoked, in order
    dRaised,     \* Delivery: node -> the message of the exception its body raised
    dLLMFailed,  \* Delivery: nodes during which an llm.invoke call raised
    dResult      \* Delivery: the value returned by run()

dvars == <<dState, dSched, dRunning, dUpdates, dStepNodes, dStatus, dStarts,
           dJira, dRaised, dLLMFailed, dResult>>

VARIABLES
    pState,      \* Parallel: the State of the run
    pSched,      \* Parallel: nodes scheduled in the current superstep, not started
    pRunning,    \* Parallel: nodes that have started and not returned
    pUpdates,    \* Parallel: node -> the update it returned
    pStepNodes,  \* Parallel: the nodes of the current superstep
    pStatus,     \* Parallel: "running", "done", "failed"
    pStarts,     \* Parallel: node -> the number of times it has started
    pAggText     \* Parallel: the perspectives text of the aggregation prompt

pvars == <<pState, pSched, pRunning, pUpdates, pStepNodes, pStatus, pStarts, pAggText>>

VARIABLES
    aState,      \* Async parallel: the State of the run
    aStatus,     \* Async parallel: "idle", "parallel", "gathering", "aggregate", "done", "failed"
    aCalls,      \* Async parallel: call -> the inputs of its chain.ainvoke
    aInFlight,   \* Async parallel: the analyze calls started and not completed
    aResults,    \* Async parallel: call -> the content it returned (None before)
    aOrder,      \* Async parallel: the calls in the order they completed
    aUpdate      \* Async parallel: the update run_parallel_node returned

avars == <<aState, aStatus, aCalls, aInFlight, aResults, aOrder, aUpdate>>

VARIABLES
    sqState,     \* Sequential: the State of the run
    sqSched,     \* Sequential: nodes scheduled in the current superstep, not started
    sqRunning,   \* Sequential: nodes that have started and not returned
    sqUpdates,   \* Sequential: node -> the update it returned
    sqStepNodes, \* Sequential: the nodes of the current superstep
    sqStatus,    \* Sequential: "idle", "running", "done", "failed"
    sqStarts,    \* Sequential: node -> the number of times it has started
    sqPrompts    \* Sequential: node -> the inputs of its chain.invoke

sqvars == <<sqState, sqSched, sqRunning, sqUpdates, sqStepNodes, sqStatus,
            sqStarts, sqPrompts>>

VARIABLES
    swState,     \* Supervisor-worker: the State of the run
    swSched,     \* Supervisor-worker: nodes scheduled in the current superstep, not started
    swRunning,   \* Supervisor-worker: nodes that have started and not returned
    swUpdates,   \* Supervisor-worker: node -> the update it returned
    swStepNodes, \* Supervisor-worker: the nodes of the current superstep
    swStatus,    \* Supervisor-worker: "idle", "running", "done", "failed"
    swStarts,    \* Supervisor-worker: node -> the number of times it has started
    swPlanned,   \* Supervisor-worker: the tasks SupervisorAgent.plan returned
    swExecuted,  \* Supervisor-worker: the positions of the tasks handed to a worker
    swResults    \* Supervisor-worker: the results text of the aggregation prompt

swvars == <<swState, swSched, swRunning, swUpdates, swStepNodes, swStatus,
            swStarts, swPlanned, swExecuted, swResults>>

VARIABLES
    hrState,     \* Hierarchical: the State of the run
    hrSched,     \* Hierarchical: nodes scheduled in the current superstep, not started
    hrRunning,   \* Hierarchical: nodes that have started and not returned
    hrUpdates,   \* Hierarchical: node -> the update it returned
    hrStepNodes, \* Hierarchical: the nodes of the current superstep
    hrStatus,    \* Hierarchical: "idle", "running", "done", "failed"
    hrStarts,    \* Hierarchical: node -> the number of times it has started
    hrPrompts    \* Hierarchical: node -> the inputs of its chain.invoke

hrvars == <<hrState, hrSched, hrRunning, hrUpdates, hrStepNodes, hrStatus,
            hrStarts, hrPrompts>>

VARIABLES
    cCache,      \* RAG pipeline: the Redis keys that are set -> their values (bytes)
    cPrev,       \* RAG pipeline: the call of run_pipeline before the last one
    cLast,       \* RAG pipeline: the last call of run_pipeline
    cExpired     \* RAG pipeline: a key has expired since the last run_pipeline

cvars == <<cCache, cPrev, cLast, cExpired>>

VARIABLES
    dbManager,   \* Sessions: the context manager in use
    dbPc,        \* Sessions: "idle", "enter", "body", "commit", "rollback", "close", "exited"
    dbOps,       \* Sessions: the operations called on the session, in order, with the caller
    dbBody,      \* Sessions: "running", "completed" or the exception the body raised
    dbCommitExc, \* Sessions: the exception the manager's commit raised, or "none"
    dbRollbackExc, \* Sessions: the exception rollback raised, or "none"
    dbCloseExc,  \* Sessions: the exception close raised, or "none"
    dbPending,   \* Sessions: the exception in flight inside the manager, or "none"
    dbRaised     \* Sessions: the exception that left the with statement, or "none"

dbvars == <<dbManager, dbPc, dbOps, dbBody, dbCommitExc, dbRollbackExc, dbCloseExc,
            dbPending, dbRaised>>

VARIABLES
    jArgs,       \* JSON output: the parsed command line
    jPc,         \* JSON output: "idle", "prepare", "invoke", "check", "done", "failed", "exhausted"
    jAttempt,    \* JSON output: the loop variable attempt
    jHint,       \* JSON output: last_error_hint
    jPrompt,     \* JSON output: prompt_prepared
    jResponse,   \* JSON output: response.content of the last model call
    jCalls,      \* JSON output: the number of model calls made
    jError       \* JSON output: the exception that ended the script, or "none"

jvars == <<jArgs, jPc, jAttempt, jHint, jPrompt, jResponse, jCalls, jError>>

VARIABLES
    vStore,      \* Retrieval: the documents of the index, each with its distance to the query
    vQuery,      \* Retrieval: the query
    vCall,       \* Retrieval: the last call: its function and its k
    vFound,      \* Retrieval: what the vector store's search returned to that call
    vResult,     \* Retrieval: what the call returned
    vStatus      \* Retrieval: "idle", "ready", "returned", "raised"

vvars == <<vStore, vQuery, vCall, vFound, vResult, vStatus>>

(***************************************************************************)
(* HITL node functions: each returns a partial update of the state.        *)
(***************************************************************************)
\* mutant: the supervisor does not look at the research notes
supervisor_router_write_first(state) == [route |-> "write"]

supervisor_router(state) ==
    IF ~Truthy(Get(state, "research_notes", None))
    THEN [route |-> "research"]
    ELSE IF ~Truthy(Get(state, "draft", None))
         THEN [route |-> "write"]
         ELSE [route |-> "write"]

research_worker(state, notes) == [research_notes |-> notes]

writer_worker(state, draft) == [draft |-> draft]

\* mutant: the risk policy waives the approval
risk_gate_no_approval(state) == [approval_required |-> FALSE]

risk_gate(state) == [approval_required |-> TRUE]

\* the payload handed to interrupt()
approval_payload(state) ==
    [message |-> <<"Human approval required. Choose: approve | edit | reject">>,
     draft |-> state["draft"],
     instructions |-> <<"If edit: return an edited version of the draft. If reject: explain why.">>]

\* human_approval once interrupt() has returned the reviewer's response
human_approval(state, response) ==
    LET decision == Get(OrEmpty(response), "decision", "approve")
        out == [human_decision |-> decision]
    IN  IF decision = "edit"
        THEN Merge(out, [human_edit |-> Get(OrEmpty(response), "edited_text", state["draft"])])
        ELSE out

RejectNotice == <<"Rejected by human reviewer.", "Reason: ">>

NoReason == <<"No reason provided.">>

\* mutant: the finalizer ignores the reviewer's edit
finalizer_ignores_edit(state) ==
    LET decision == Get(state, "human_decision", "approve")
        edit == Get(state, "human_edit", None)
    IN  IF decision = "reject"
        THEN [final_answer |-> RejectNotice \o (IF Truthy(edit) THEN edit ELSE NoReason)]
        ELSE [final_answer |-> state["draft"]]

finalizer(state) ==
    LET decision == Get(state, "human_decision", "approve")
        edit == Get(state, "human_edit", None)
    IN  IF decision = "reject"
        THEN [final_answer |-> RejectNotice \o (IF Truthy(edit) THEN edit ELSE NoReason)]
        ELSE IF decision = "edit" /\ Truthy(edit)
             THEN [final_answer |-> edit]
             ELSE [final_answer |-> state["draft"]]

\* conditional edge out of supervisor_router
route_selector(state) ==
    IF state["route"] = "research" THEN "research_worker" ELSE "writer_worker"

\* conditional edge out of risk_gate
approval_selector(state) ==
    IF Get(state, "approval_required", FALSE) THEN "human_approval" ELSE "finalizer"

(***************************************************************************)
(* HITL graph execution.                                                   *)
(***************************************************************************)
HInit ==
    /\ hState \in {[user_input |-> q] : q \in UserInputs}
    /\ hNode = "supervisor_router"
    /\ hStatus = "running"
    /\ hTrace = <<>>
    /\ hSteps = 0
    /\ hPayload = EmptyDict
    /\ hResponse = EmptyDict
    /\ hUpdate = EmptyDict

\* a step of the HITL graph leaves the other workflows alone
HFrame == UNCHANGED <<dvars, pvars, avars, sqvars, swvars, hrvars, cvars, dbvars, jvars, vvars>>

\* the HITL graph has not been invoked
HIdle ==
    /\ hState = EmptyDict
    /\ hNode = "END"
    /\ hStatus = "idle"
    /\ hTrace = <<>>
    /\ hSteps = 0
    /\ hPayload = EmptyDict
    /\ hResponse = EmptyDict
    /\ hUpdate = EmptyDict

\* a node may start: the run is live and the step budget is not used up
HCanRun(node) ==
    /\ hStatus = "running"
    /\ hNode = node
    /\ hSteps < MaxSteps

\* the node returned `update` and `next` is scheduled
HStep(node, update, next) ==
    /\ hState' = Merge(hState, update)
    /\ hUpdate' = update
    /\ hTrace' = Append(hTrace, node)
    /\ hSteps' = hSteps + 1
    /\ hNode' = next
    /\ hStatus' = IF next = "END" THEN "done" ELSE "running"

HSupervisorRouter ==
    /\ HFrame
    /\ HCanRun("supervisor_router")
    /\ LET update == supervisor_router(hState)
       IN  HStep("supervisor_router", update, route_selector(Merge(hState, update)))
    /\ UNCHANGED <<hPayload, hResponse>>

HResearchWorker ==
    /\ HFrame
    /\ HCanRun("research_worker")
    /\ \E notes \in LLMTexts :
          HStep("research_worker", research_worker(hState, notes), "supervisor_router")
    /\ UNCHANGED <<hPayload, hResponse>>

HWriterWorker ==
    /\ HFrame
    /\ HCanRun("writer_worker")
    /\ \E draft \in LLMTexts :
          HStep("writer_worker", writer_worker(hState, draft), "risk_gate")
    /\ UNCHANGED <<hPayload, hResponse>>

\* llm.invoke raises in a worker: no node catches it, the run fails
HWorkerFails ==
    /\ HFrame
    /\ \/ HCanRun("research_worker")
       \/ HCanRun("writer_worker")
    /\ hStatus' = "failed"
    /\ UNCHANGED <<hState, hNode, hTrace, hSteps, hPayload, hResponse, hUpdate>>

HRiskGate ==
    /\ HFrame
    /\ HCanRun("risk_gate")
    /\ LET update == risk_gate(hState)
       IN  HStep("risk_gate", update, approval_selector(Merge(hState, update)))
    /\ UNCHANGED <<hPayload, hResponse>>

\* human_approval reaches interrupt(): the run pauses, nothing is written
HHumanApprovalInterrupt ==
    /\ HFrame
    /\ HCanRun("human_approval")
    /\ hPayload' = approval_payload(hState)
    /\ hStatus' = "interrupted"
    /\ UNCHANGED <<hState, hNode, hTrace, hSteps, hResponse, hUpdate>>

\* the reviewer resumes the run: human_approval runs again from its start
\* and interrupt() returns the response
HHumanApprovalResume ==
    /\ HFrame
    /\ hStatus = "interrupted"
    /\ hNode = "human_approval"
    /\ \E response \in Responses :
          /\ hResponse' = response
          /\ HStep("human_approval", human_approval(hState, response), "finalizer")
    /\ UNCHANGED hPayload

HFinalizer ==
    /\ HFrame
    /\ HCanRun("finalizer")
    /\ HStep("finalizer", finalizer(hState), "END")
    /\ UNCHANGED <<hPayload, hResponse>>

\* the step budget is used up before END: GraphRecursionError
HRecursionError ==
    /\ HFrame
    /\ hStatus = "running"
    /\ hNode # "END"
    /\ hSteps >= MaxSteps
    /\ hStatus' = "recursion_error"
    /\ UNCHANGED <<hState, hNode, hTrace, hSteps, hPayload, hResponse, hUpdate>>

HNext ==
    \/ HSupervisorRouter
    \/ HResearchWorker
    \/ HWriterWorker
    \/ HWorkerFails
    \/ HRiskGate
    \/ HHumanApprovalInterrupt
    \/ HHumanApprovalResume
    \/ HFinalizer
    \/ HRecursionError

(***************************************************************************)
(* Delivery Command Center: inputs.                                        *)
(***************************************************************************)
\* str(e) of the exceptions that may be raised
Exceptions == {"boom"}

\* outcomes of one llm.invoke call: a response content or an exception
LLMResults(texts) ==
    {[ok |-> TRUE, text |-> t] : t \in texts}
        \cup {[ok |-> FALSE, text |-> <<e>>] : e \in Exceptions}

\* arguments of run()
UserRequests == {<<"sprint status?">>}

\* contents the agents' model calls may return
PlainTexts == {<<"text">>}

RiskTexts ==
    {<<>>,
     <<" ", "risk", "{", "high", "}">>,
     <<"report", "{", "risk_level", ":", "high", "}">>}

ActionTexts ==
    {<<"nothing", "to", "do">>,
     <<"see", "{", "proposed_actions", ":", "[a1,a2]", "}">>,
     <<"proposed_actions", "{", "[a1]", "}">>}

\* results of JiraClient.get_stories and get_bugs
JiraData ==
    {[stories |-> <<>>, bugs |-> <<>>],
     [stories |-> <<[key |-> "JIRA-1"], [key |-> "JIRA-2"]>>, bugs |-> <<[key |-> "JIRA-3"]>>]}

\* results the evaluator may compute; the scores are left open
EvalResults == {[overall_pass |-> FALSE]}

\* the JiraClient methods that change JIRA
JiraWriteOps == {"add_comment", "transition_issue", "assign_issue", "create_subtask"}

(***************************************************************************)
(* Text and JSON helpers.                                                  *)
(***************************************************************************)
\* tok in text
InText(tok, text) == \E i \in 1..Len(text) : text[i] = tok

\* text.find(tok): 0-based index of the first occurrence, -1 when absent
Find(text, tok) ==
    IF InText(tok, text)
    THEN (CHOOSE i \in 1..Len(text) :
             text[i] = tok /\ \A j \in 1..(i - 1) : text[j] # tok) - 1
    ELSE -1

\* text.rfind(tok): 0-based index of the last occurrence, -1 when absent
RFind(text, tok) ==
    IF InText(tok, text)
    THEN (CHOOSE i \in 1..Len(text) :
             text[i] = tok /\ \A j \in (i + 1)..Len(text) : text[j] # tok) - 1
    ELSE -1

\* text[start:end]
Slice(text, start, end) == SubSeq(text, start + 1, end)

\* text.strip(): leading and trailing blanks removed
RECURSIVE Strip(_)
Strip(text) ==
    IF text = <<>> THEN <<>>
    ELSE IF Head(text) = " " THEN Strip(Tail(text))
    ELSE IF text[Len(text)] = " " THEN Strip(SubSeq(text, 1, Len(text) - 1))
    ELSE text

JsonPunctuation == {"{", "}", ":"}

\* json.loads of a one-member object { key : value }; anything else is a
\* JSONDecodeError
JsonLoads(doc) ==
    IF /\ Len(doc) = 5
       /\ doc[1] = "{" /\ doc[3] = ":" /\ doc[5] = "}"
       /\ doc[2] \notin JsonPunctuation /\ doc[4] \notin JsonPunctuation
    THEN [ok |-> TRUE, key |-> doc[2], value |-> doc[4]]
    ELSE [ok |-> FALSE, key |-> "", value |-> ""]

\* the parsed value of an array token; a scalar is kept as it is
JsonValue(tok) ==
    CASE tok = "[]" -> <<>>
      [] tok = "[a1]" -> <<"a1">>
      [] tok = "[a1,a2]" -> <<"a1", "a2">>
      [] OTHER -> <<tok>>

\* parsed.get(key, default)
ParsedGet(parsed, key, default) ==
    IF parsed.key = key THEN JsonValue(parsed.value) ELSE default

\* str.upper() of the risk levels
Upper(tok) ==
    CASE tok = "low" -> "LOW"
      [] tok = "medium" -> "MEDIUM"
      [] tok = "high" -> "HIGH"
      [] tok = "critical" -> "CRITICAL"
      [] OTHER -> tok

(***************************************************************************)
(* Delivery Command Center: agents.                                        *)
(***************************************************************************)
\* BaseAgent.invoke: an exception of the model call is caught and turned
\* into an output text
BaseAgent_invoke(name, llm) ==
    IF llm.ok
    THEN [agent |-> name, output |-> llm.text, success |-> TRUE]
    ELSE [agent |-> name, output |-> <<"Error: ">> \o llm.text, success |-> FALSE]

create_plan(user_request, llm) == BaseAgent_invoke("planner", llm)

analyze_sprint_health(stories, bugs, llm) ==
    Merge(BaseAgent_invoke("jira_analyst", llm),
          [data |-> [stories_count |-> Len(stories),
                     bugs_count |-> Len(bugs),
                     sprint_health |-> None]])

compute_risk(jira_data, llm) == BaseAgent_invoke("risk_agent", llm)

analyze_dependencies(stories, jira_analysis, llm) ==
    BaseAgent_invoke("dependency_agent", llm)

\* the get_dependencies calls of analyze_dependencies: one per story
dependency_calls(stories) ==
    [i \in 1..(IF Len(stories) < 50 THEN Len(stories) ELSE 50) |-> "get_dependencies"]

draft_stakeholder_email(risk_report, jira_analysis, llm) ==
    BaseAgent_invoke("comms_agent", llm)

draft_status_report(jira_analysis, risk_report, llm) ==
    BaseAgent_invoke("comms_agent", llm)

prepare_actions(risk_report, dependency_analysis, comms_output, llm) ==
    BaseAgent_invoke("action_agent", llm)

validate_actions(proposed_actions, llm) == BaseAgent_invoke("governance_agent", llm)

(***************************************************************************)
(* Delivery Command Center: node functions.  Each returns its partial      *)
(* update and the JiraClient methods it invoked.                           *)
(***************************************************************************)
\* the update of an except branch: the previous errors and one message
ErrorUpdate(state, prefix, e) ==
    [errors |-> Append(Get(state, "errors", <<>>), <<prefix, e>>)]

NodeResult(update, calls) == [update |-> update, jira |-> calls]

_planner_node(state, raises, e, llm) ==
    IF raises
    THEN NodeResult(ErrorUpdate(state, "Planner error: ", e), <<>>)
    ELSE NodeResult([plan |-> create_plan(state["user_request"], llm)], <<>>)

\* fail names the call of the body that raised: "get_stories", "get_bugs",
\* "body" (a later statement) or "none"
_jira_analyst_node(state, fail, e, stories, bugs, llm) ==
    IF fail = "get_stories"
    THEN NodeResult(ErrorUpdate(state, "JIRA analysis error: ", e), <<"get_stories">>)
    ELSE IF fail # "none"
    THEN NodeResult(ErrorUpdate(state, "JIRA analysis error: ", e),
                    <<"get_stories", "get_bugs">>)
    ELSE NodeResult([jira_analysis |-> analyze_sprint_health(stories, bugs, llm)],
                    <<"get_stories", "get_bugs">>)

_risk_agent_node(state, raises, e, llm) ==
    IF raises
    THEN NodeResult(ErrorUpdate(state, "Risk analysis error: ", e), <<>>)
    ELSE NodeResult([risk_report |-> compute_risk(Get(state, "jira_analysis", EmptyDict), llm)],
                    <<>>)

_dependency_agent_node(state, raises, e, llm) ==
    LET jira_analysis == Get(state, "jira_analysis", EmptyDict)
        stories == Get(Get(jira_analysis, "data", EmptyDict), "stories", <<>>)
    IN  IF raises
        THEN NodeResult(ErrorUpdate(state, "Dependency analysis error: ", e), <<>>)
        ELSE NodeResult([dependency_analysis |->
                            analyze_dependencies(stories, jira_analysis, llm)],
                        dependency_calls(stories))

_comms_agent_node(state, raises, e, llm1, llm2) ==
    LET risk_report == Get(state, "risk_report", EmptyDict)
        jira_analysis == Get(state, "jira_analysis", EmptyDict)
    IN  IF raises
        THEN NodeResult(ErrorUpdate(state, "Comms error: ", e), <<>>)
        ELSE NodeResult(
                [comms_output |->
                    [email |-> draft_stakeholder_email(risk_report, jira_analysis, llm1),
                     status_report |-> draft_status_report(jira_analysis, risk_report, llm2)]],
                <<>>)

\* mutant: the action node carries out the actions it has prepared
_action_agent_node_executes(state, raises, e, llm) ==
    IF raises
    THEN NodeResult(ErrorUpdate(state, "Action error: ", e), <<>>)
    ELSE NodeResult(
            [proposed_actions |->
                prepare_actions(Get(state, "risk_report", EmptyDict),
                                Get(state, "dependency_analysis", EmptyDict),
                                Get(state, "comms_output", EmptyDict), llm)],
            <<"add_comment">>)

_action_agent_node(state, raises, e, llm) ==
    IF raises
    THEN NodeResult(ErrorUpdate(state, "Action error: ", e), <<>>)
    ELSE NodeResult(
            [proposed_actions |->
                prepare_actions(Get(state, "risk_report", EmptyDict),
                                Get(state, "dependency_analysis", EmptyDict),
                                Get(state, "comms_output", EmptyDict), llm)],
            <<>>)

_governance_agent_node(state, raises, e, llm) ==
    IF raises
    THEN NodeResult(ErrorUpdate(state, "Governance error: ", e), <<>>)
    ELSE NodeResult(
            [governance_check |->
                validate_actions(Get(state, "proposed_actions", EmptyDict), llm)],
            <<>>)

_evaluator_node(state, raises, e, eval_results) ==
    IF raises
    THEN NodeResult(ErrorUpdate(state, "Evaluation error: ", e), <<>>)
    ELSE NodeResult([evaluation_results |-> eval_results], <<>>)

_extract_actions(actions_output) ==
    LET output_text == Get(actions_output, "output", <<>>)
        start == Find(output_text, "{")
        end == RFind(output_text, "}") + 1
        parsed == JsonLoads(Slice(output_text, start, end))
    IN  IF InText("proposed_actions", output_text) /\ start >= 0 /\ end > start /\ parsed.ok
        THEN ParsedGet(parsed, "proposed_actions", <<>>)
        ELSE <<>>

\* the markdown of a parsed report with one member
format_parsed(parsed) ==
    <<"## Risk Score: ">> \o ParsedGet(parsed, "risk_score", <<"N/A">>) \o <<"/100">>
        \o <<"**Risk Level:** ">>
        \o (IF parsed.key = "risk_level" THEN <<Upper(parsed.value)>> ELSE <<"N/A">>)
        \o <<"**Delay Probability:** ">>
        \o (IF parsed.key = "delay_probability" THEN <<parsed.value>> ELSE <<"0.0%">>)

_format_risk_report(risk_report) ==
    LET raw == Get(risk_report, "output", <<>>)
        output_text == Strip(raw)
        start == Find(output_text, "{")
        end == RFind(output_text, "}") + 1
        parsed == JsonLoads(Slice(output_text, start, end))
    IN  IF raw = <<>>
        THEN <<"Risk report not available.">>
        ELSE IF start >= 0 /\ end > start /\ parsed.ok
             THEN format_parsed(parsed)
             ELSE output_text

_finalize_node(state, raises, e) ==
    IF raises
    THEN NodeResult(ErrorUpdate(state, "Finalization error: ", e), <<>>)
    ELSE NodeResult(
            [final_output |->
                [risk_report |-> _format_risk_report(Get(state, "risk_report", EmptyDict)),
                 stakeholder_email |->
                     Get(Get(Get(state, "comms_output", EmptyDict), "email", EmptyDict),
                         "output", <<>>),
                 status_report |->
                     Get(Get(Get(state, "comms_output", EmptyDict), "status_report", EmptyDict),
                         "output", <<>>),
                 proposed_actions |->
                     _extract_actions(Get(state, "proposed_actions", EmptyDict)),
                 governance_status |->
                     Get(Get(state, "governance_check", EmptyDict), "output", <<>>),
                 evaluation_scores |-> Get(state, "evaluation_results", EmptyDict),
                 errors |-> Get(state, "errors", <<>>)]],
            <<>>)

(***************************************************************************)
(* Delivery Command Center: the graph and its execution.                   *)
(***************************************************************************)
DNodes ==
    {"planner", "jira_analyst", "risk_agent", "dependency_agent", "comms_agent",
     "action_agent", "governance_agent", "evaluator", "finalize"}

DEdges ==
    {<<"planner", "jira_analyst">>,
     <<"jira_analyst", "risk_agent">>,
     <<"jira_analyst", "dependency_agent">>,
     <<"risk_agent", "comms_agent">>,
     <<"dependency_agent", "comms_agent">>,
     <<"comms_agent", "action_agent">>,
     <<"action_agent", "governance_agent">>,
     <<"governance_agent", "evaluator">>,
     <<"evaluator", "finalize">>,
     <<"finalize", "END">>}

\* run(): the initial state
initial_state(user_request, user_id, user_role, conversation_id) ==
    [user_request |-> user_request,
     user_id |-> user_id,
     user_role |-> user_role,
     conversation_id |-> conversation_id,
     plan |-> EmptyDict,
     jira_analysis |-> EmptyDict,
     risk_report |-> EmptyDict,
     dependency_analysis |-> EmptyDict,
     comms_output |-> EmptyDict,
     proposed_actions |-> EmptyDict,
     governance_check |-> EmptyDict,
     evaluation_results |-> EmptyDict,
     final_output |-> EmptyDict,
     errors |-> <<>>]

DInit ==
    /\ dState \in {initial_state(r, <<"u1">>, <<"pm">>, <<"c1">>) : r \in UserRequests}
    /\ dSched = {"planner"}
    /\ dRunning = {}
    /\ dUpdates = EmptyDict
    /\ dStepNodes = {"planner"}
    /\ dStatus = "running"
    /\ dStarts = [n \in DNodes |-> 0]
    /\ dJira = <<>>
    /\ dRaised = EmptyDict
    /\ dLLMFailed = {}
    /\ dResult = EmptyDict

\* the Delivery graph has not been invoked
DIdle ==
    /\ dState = EmptyDict
    /\ dSched = {}
    /\ dRunning = {}
    /\ dUpdates = EmptyDict
    /\ dStepNodes = {}
    /\ dStatus = "idle"
    /\ dStarts = [n \in DNodes |-> 0]
    /\ dJira = <<>>
    /\ dRaised = EmptyDict
    /\ dLLMFailed = {}
    /\ dResult = EmptyDict

\* a step of the Delivery graph leaves the other workflows alone
DFrame == UNCHANGED <<hvars, pvars, avars, sqvars, swvars, hrvars, cvars, dbvars, jvars, vvars>>

\* a scheduled node starts on the state of the current superstep
DStart ==
    /\ DFrame
    /\ dStatus = "running"
    /\ \E n \in dSched :
          /\ dSched' = dSched \ {n}
          /\ dRunning' = dRunning \cup {n}
          /\ dStarts' = [dStarts EXCEPT ![n] = @ + 1]
    /\ UNCHANGED <<dState, dUpdates, dStepNodes, dStatus, dJira, dRaised, dLLMFailed, dResult>>

\* node n returns: its update waits for the end of the superstep
DReturn(n, result, raised, llmFailed) ==
    /\ DFrame
    /\ dStatus = "running"
    /\ n \in dRunning
    /\ dRunning' = dRunning \ {n}
    /\ dUpdates' = (n :> result.update) @@ dUpdates
    /\ dJira' = dJira \o result.jira
    /\ dRaised' = IF raised THEN (n :> result.update.errors[Len(result.update.errors)]) @@ dRaised
                  ELSE dRaised
    /\ dLLMFailed' = IF llmFailed THEN dLLMFailed \cup {n} ELSE dLLMFailed
    /\ UNCHANGED <<dState, dSched, dStepNodes, dStatus, dStarts, dResult>>

DPlanner ==
    /\ "planner" \in dRunning
    /\ \E raises \in BOOLEAN, e \in Exceptions, llm \in LLMResults(PlainTexts) :
           DReturn("planner", _planner_node(dState, raises, e, llm),
                   raises, ~raises /\ ~llm.ok)

DJiraAnalyst ==
    /\ "jira_analyst" \in dRunning
    /\ \E fail \in {"none", "get_stories", "get_bugs", "body"}, e \in Exceptions,
          data \in JiraData, llm \in LLMResults(PlainTexts) :
           DReturn("jira_analyst",
                   _jira_analyst_node(dState, fail, e, data.stories, data.bugs, llm),
                   fail # "none", fail = "none" /\ ~llm.ok)

DRiskAgent ==
    /\ "risk_agent" \in dRunning
    /\ \E raises \in BOOLEAN, e \in Exceptions, llm \in LLMResults(RiskTexts) :
           DReturn("risk_agent", _risk_agent_node(dState, raises, e, llm),
                   raises, ~raises /\ ~llm.ok)

DDependencyAgent ==
    /\ "dependency_agent" \in dRunning
    /\ \E raises \in BOOLEAN, e \in Exceptions, llm \in LLMResults(PlainTexts) :
           DReturn("dependency_agent", _dependency_agent_node(dState, raises, e, llm),
                   raises, ~raises /\ ~llm.ok)

DCommsAgent ==
    /\ "comms_agent" \in dRunning
    /\ \E raises \in BOOLEAN, e \in Exceptions,
          llm1 \in LLMResults(PlainTexts), llm2 \in LLMResults(PlainTexts) :
           DReturn("comms_agent", _comms_agent_node(dState, raises, e, llm1, llm2),
                   raises, ~raises /\ (~llm1.ok \/ ~llm2.ok))

DActionAgent ==
    /\ "action_agent" \in dRunning
    /\ \E raises \in BOOLEAN, e \in Exceptions, llm \in LLMResults(ActionTexts) :
           DReturn("action_agent", _action_agent_node(dState, raises, e, llm),
                   raises, ~raises /\ ~llm.ok)

DGovernanceAgent ==
    /\ "governance_agent" \in dRunning
    /\ \E raises \in BOOLEAN, e \in Exceptions, llm \in LLMResults(PlainTexts) :
           DReturn("governance_agent", _governance_agent_node(dState, raises, e, llm),
                   raises, ~raises /\ ~llm.ok)

DEvaluator ==
    /\ "evaluator" \in dRunning
    /\ \E raises \in BOOLEAN, e \in Exceptions, eval_results \in EvalResults :
           DReturn("evaluator", _evaluator_node(dState, raises, e, eval_results),
                   raises, FALSE)

DFinalize ==
    /\ "finalize" \in dRunning
    /\ \E raises \in BOOLEAN, e \in Exceptions :
           DReturn("finalize", _finalize_node(dState, raises, e), raises, FALSE)

\* all nodes of the superstep have returned
DStepOver == dStatus = "running" /\ dSched = {} /\ dRunning = {} /\ dStepNodes # {}

\* two nodes of one superstep wrote the same key: the keys of WorkflowState
\* take one value per step
DConflict ==
    \E a \in dStepNodes, b \in dStepNodes :
        a # b /\ (DOMAIN dUpdates[a]) \cap (DOMAIN dUpdates[b]) # {}

\* the updates of a set of nodes merged into the state
RECURSIVE MergeAll(_, _)
MergeAll(state, nodes) ==
    IF nodes = {} THEN state
    ELSE LET n == CHOOSE m \in nodes : TRUE
         IN  MergeAll(Merge(state, dUpdates[n]), nodes \ {n})

\* the nodes the edges leaving the superstep's nodes lead to
DSuccessors == {edge[2] : edge \in {x \in DEdges : x[1] \in dStepNodes}}

\* end of a superstep: the updates are merged and the next nodes scheduled;
\* after finalize, run() returns result.get("final_output", {})
DApplyWrites ==
    /\ DFrame
    /\ DStepOver
    /\ ~DConflict
    /\ dState' = MergeAll(dState, dStepNodes)
    /\ IF DSuccessors = {"END"}
       THEN /\ dStatus' = "done"
            /\ dSched' = {}
            /\ dStepNodes' = {}
            /\ dResult' = Get(dState', "final_output", EmptyDict)
       ELSE /\ dStatus' = "running"
            /\ dSched' = DSuccessors
            /\ dStepNodes' = DSuccessors
            /\ dResult' = dResult
    /\ UNCHANGED <<dRunning, dUpdates, dStarts, dJira, dRaised, dLLMFailed>>

\* end of a superstep with conflicting updates: graph.invoke raises
\* InvalidUpdateError and run() returns nothing
DInvalidUpdate ==
    /\ DFrame
    /\ DStepOver
    /\ DConflict
    /\ dStatus' = "invalid_update"
    /\ UNCHANGED <<dState, dSched, dRunning, dUpdates, dStepNodes, dStarts, dJira,
                   dRaised, dLLMFailed, dResult>>

DNext ==
    \/ DStart
    \/ DPlanner
    \/ DJiraAnalyst
    \/ DRiskAgent
    \/ DDependencyAgent
    \/ DCommsAgent
    \/ DActionAgent
    \/ DGovernanceAgent
    \/ DEvaluator
    \/ DFinalize
    \/ DApplyWrites
    \/ DInvalidUpdate

(***************************************************************************)
(* 8-patterns/3_parallel.py: three perspective nodes and an aggregator.    *)
(***************************************************************************)
PRequests == {<<"new feature?">>, <<"new pricing?">>}

\* contents a perspective or aggregation call may return
PTexts == {<<>>, <<"pro">>, <<"con">>}

PNodes == {"parallel_1", "parallel_2", "parallel_3", "aggregate"}

PerspectiveNodes == {"parallel_1", "parallel_2", "parallel_3"}

\* mutant: the three perspective nodes fan out instead of forming a chain
PEdges_fan_out ==
    {<<"parallel_1", "parallel_2">>,
     <<"parallel_1", "parallel_3">>,
     <<"parallel_2", "aggregate">>,
     <<"parallel_3", "aggregate">>,
     <<"aggregate", "END">>}

PEdges ==
    {<<"parallel_1", "parallel_2">>,
     <<"parallel_2", "parallel_3">>,
     <<"parallel_3", "aggregate">>,
     <<"aggregate", "END">>}

\* State(user_request=...).model_dump()
PState(user_request) ==
    [user_request |-> user_request,
     perspective_1 |-> None,
     perspective_2 |-> None,
     perspective_3 |-> None,
     final_result |-> None]

parallel_1_node(state, result) == [perspective_1 |-> result]

parallel_2_node(state, result) == [perspective_2 |-> result]

parallel_3_node(state, result) == [perspective_3 |-> result]

\* AggregatorAgent.aggregate: the perspectives text of the prompt, the
\* falsy perspectives left out
RECURSIVE perspectives_text(_, _)
perspectives_text(perspectives, i) ==
    IF i > Len(perspectives) THEN <<>>
    ELSE (IF Truthy(perspectives[i])
          THEN <<"Perspective", ToString(i), ":">> \o perspectives[i]
          ELSE <<>>)
         \o perspectives_text(perspectives, i + 1)

\* the perspectives aggregate_node reads from the state
aggregate_perspectives(state) ==
    <<state["perspective_1"], state["perspective_2"], state["perspective_3"]>>

aggregate_node(state, final) == [final_result |-> final]

PInit ==
    /\ pState \in {PState(r) : r \in PRequests}
    /\ pSched = {"parallel_1"}
    /\ pRunning = {}
    /\ pUpdates = EmptyDict
    /\ pStepNodes = {"parallel_1"}
    /\ pStatus = "running"
    /\ pStarts = [n \in PNodes |-> 0]
    /\ pAggText = <<>>

\* the workflow has not been invoked
PIdle ==
    /\ pState = EmptyDict
    /\ pSched = {}
    /\ pRunning = {}
    /\ pUpdates = EmptyDict
    /\ pStepNodes = {}
    /\ pStatus = "idle"
    /\ pStarts = [n \in PNodes |-> 0]
    /\ pAggText = <<>>

\* a step of this workflow leaves the other workflows alone
PFrame == UNCHANGED <<hvars, dvars, avars, sqvars, swvars, hrvars, cvars, dbvars, jvars, vvars>>

\* a scheduled node starts on the state of the current superstep
PStart ==
    /\ PFrame
    /\ pStatus = "running"
    /\ \E n \in pSched :
          /\ pSched' = pSched \ {n}
          /\ pRunning' = pRunning \cup {n}
          /\ pStarts' = [pStarts EXCEPT ![n] = @ + 1]
    /\ UNCHANGED <<pState, pUpdates, pStepNodes, pStatus, pAggText>>

\* node n returns: its update waits for the end of the superstep
PReturn(n, update) ==
    /\ PFrame
    /\ pStatus = "running"
    /\ n \in pRunning
    /\ pRunning' = pRunning \ {n}
    /\ pUpdates' = (n :> update) @@ pUpdates
    /\ UNCHANGED <<pState, pSched, pStepNodes, pStatus, pStarts>>

PParallel1 ==
    /\ \E result \in PTexts : PReturn("parallel_1", parallel_1_node(pState, result))
    /\ UNCHANGED pAggText

PParallel2 ==
    /\ \E result \in PTexts : PReturn("parallel_2", parallel_2_node(pState, result))
    /\ UNCHANGED pAggText

PParallel3 ==
    /\ \E result \in PTexts : PReturn("parallel_3", parallel_3_node(pState, result))
    /\ UNCHANGED pAggText

PAggregate ==
    /\ \E final \in PTexts : PReturn("aggregate", aggregate_node(pState, final))
    /\ pAggText' = perspectives_text(aggregate_perspectives(pState), 1)

\* a model call raises in a node: nothing catches it inside the graph
PNodeFails ==
    /\ PFrame
    /\ pStatus = "running"
    /\ pRunning # {}
    /\ pStatus' = "failed"
    /\ UNCHANGED <<pState, pSched, pRunning, pUpdates, pStepNodes, pStarts, pAggText>>

\* the updates of the superstep's nodes merged into the state
RECURSIVE PMergeAll(_, _)
PMergeAll(state, nodes) ==
    IF nodes = {} THEN state
    ELSE LET n == CHOOSE m \in nodes : TRUE
         IN  PMergeAll(Merge(state, pUpdates[n]), nodes \ {n})

\* the nodes the edges leaving the superstep's nodes lead to
PSuccessors == {edge[2] : edge \in {x \in PEdges : x[1] \in pStepNodes}}

\* end of a superstep: the updates are merged and the next nodes scheduled
PApplyWrites ==
    /\ PFrame
    /\ pStatus = "running"
    /\ pSched = {} /\ pRunning = {} /\ pStepNodes # {}
    /\ pState' = PMergeAll(pState, pStepNodes)
    /\ IF PSuccessors = {"END"}
       THEN pStatus' = "done" /\ pSched' = {} /\ pStepNodes' = {}
       ELSE pStatus' = "running" /\ pSched' = PSuccessors /\ pStepNodes' = PSuccessors
    /\ UNCHANGED <<pRunning, pUpdates, pStarts, pAggText>>

PNext ==
    \/ PStart
    \/ PParallel1
    \/ PParallel2
    \/ PParallel3
    \/ PAggregate
    \/ PNodeFails
    \/ PApplyWrites

(***************************************************************************)
(* The "true parallel" pattern of 8-patterns/3_1_paralell.py: one node     *)
(* awaits three concurrent analyze calls, a second node aggregates.        *)
(***************************************************************************)
ARequests == {<<"r1">>, <<"r2">>}

\* contents an analyze or aggregate call may return
ATexts == {<<"t1">>, <<"t2">>}

\* agent1, agent2, agent3 of create_workflow
APerspectives == <<"technical", "business", "user experience">>

ACallIds == 1..3

\* the state key run_parallel_node fills from the i-th gathered result
APerspectiveKey(i) ==
    IF i = 1 THEN "perspective_1" ELSE IF i = 2 THEN "perspective_2" ELSE "perspective_3"

\* State(user_request=...)
AState(user_request) ==
    [user_request |-> user_request,
     perspective_1 |-> None, perspective_2 |-> None, perspective_3 |-> None,
     final_result |-> None]

\* PerspectiveAgent.analyze: the inputs handed to chain.ainvoke
analyze(perspective, user_request) ==
    [user_request |-> user_request, perspective |-> <<perspective>>]

\* a gather that lists the results as they complete
gather_as_completed(aws, done, order) ==
    [i \in 1..Len(aws) |-> done[order[i]]]

\* asyncio.gather: the results in the order of the awaitables passed,
\* whatever the order of completion
gather(aws, done, order) ==
    [i \in 1..Len(aws) |-> done[aws[i]]]

\* the dict run_parallel_node returns
run_parallel_update(done, order) ==
    LET p == gather(<<1, 2, 3>>, done, order)
    IN [perspective_1 |-> p[1], perspective_2 |-> p[2], perspective_3 |-> p[3]]

\* app.ainvoke(State(user_request=...)): the entry point is scheduled
AInit ==
    /\ \E r \in ARequests : aState = AState(r)
    /\ aStatus = "parallel"
    /\ aCalls = [i \in ACallIds |-> EmptyDict]
    /\ aInFlight = {}
    /\ aResults = [i \in ACallIds |-> None]
    /\ aOrder = <<>>
    /\ aUpdate = EmptyDict

\* the workflow has not been invoked
AIdle ==
    /\ aState = EmptyDict
    /\ aStatus = "idle"
    /\ aCalls = [i \in ACallIds |-> EmptyDict]
    /\ aInFlight = {}
    /\ aResults = [i \in ACallIds |-> None]
    /\ aOrder = <<>>
    /\ aUpdate = EmptyDict

\* a step of this workflow leaves the other workflows alone
AFrame == UNCHANGED <<hvars, dvars, pvars, sqvars, swvars, hrvars, cvars, dbvars, jvars, vvars>>

\* run_parallel_node up to its await: the three coroutines are created and
\* gather schedules all of them before the node suspends
ARunParallelNode ==
    /\ AFrame
    /\ aStatus = "parallel"
    /\ aCalls' = [i \in ACallIds |-> analyze(APerspectives[i], aState["user_request"])]
    /\ aInFlight' = ACallIds
    /\ aStatus' = "gathering"
    /\ UNCHANGED <<aState, aResults, aOrder, aUpdate>>

\* one chain.ainvoke completes and analyze returns resp.content
AAnalyzeReturns ==
    /\ AFrame
    /\ aStatus = "gathering"
    /\ \E i \in aInFlight, content \in ATexts :
         /\ aResults' = [aResults EXCEPT ![i] = content]
         /\ aInFlight' = aInFlight \ {i}
         /\ aOrder' = Append(aOrder, i)
    /\ UNCHANGED <<aState, aStatus, aCalls, aUpdate>>

\* one chain.ainvoke raises: gather hands the exception to the node, which
\* does not catch it, and the run fails
AAnalyzeRaises ==
    /\ AFrame
    /\ aStatus = "gathering"
    /\ \E i \in aInFlight : aInFlight' = aInFlight \ {i}
    /\ aStatus' = "failed"
    /\ UNCHANGED <<aState, aCalls, aResults, aOrder, aUpdate>>

\* gather returns once every awaitable has completed; the node returns its
\* update and the graph merges it into the state
AGatherReturns ==
    /\ AFrame
    /\ aStatus = "gathering"
    /\ aInFlight = {}
    /\ aUpdate' = run_parallel_update(aResults, aOrder)
    /\ aState' = Merge(aState, aUpdate')
    /\ aStatus' = "aggregate"
    /\ UNCHANGED <<aCalls, aInFlight, aResults, aOrder>>

\* aggregate_node
AAggregate ==
    /\ AFrame
    /\ aStatus = "aggregate"
    /\ \E final \in ATexts : aState' = Merge(aState, [final_result |-> final])
    /\ aStatus' = "done"
    /\ UNCHANGED <<aCalls, aInFlight, aResults, aOrder, aUpdate>>

ANext ==
    \/ ARunParallelNode
    \/ AAnalyzeReturns
    \/ AAnalyzeRaises
    \/ AGatherReturns
    \/ AAggregate

(***************************************************************************)
(* The sequential pattern of 8-patterns/2_sequential.py.                   *)
(***************************************************************************)
SqRequests == {<<"ml?">>, <<"ai?">>}

\* contents a model call may return (the empty text included)
SqTexts == {<<>>, <<"t1">>, <<"t2">>}

SqNodes == {"research", "analysis", "writing"}

\* mutant: analysis and writing both follow research
SqEdges_fan_out ==
    {<<"research", "analysis">>,
     <<"research", "writing">>,
     <<"analysis", "END">>,
     <<"writing", "END">>}

SqEdges ==
    {<<"research", "analysis">>,
     <<"analysis", "writing">>,
     <<"writing", "END">>}

\* State(user_request=...).model_dump()
SqState(user_request) ==
    [user_request |-> user_request,
     research_result |-> None,
     analysis_result |-> None,
     final_result |-> None]

\* ResearcherAgent.research: the inputs of chain.invoke
research(user_request) == [user_request |-> user_request]

\* AnalystAgent.analyze: the inputs of chain.invoke
analyst_analyze(user_request, research_text) ==
    [user_request |-> user_request, research |-> research_text]

\* WriterAgent.write: the inputs of chain.invoke
write(user_request, research_text, analysis) ==
    [user_request |-> user_request, research |-> research_text, analysis |-> analysis]

research_node(state, content) == [research_result |-> content]

analysis_node(state, content) == [analysis_result |-> content]

writing_node(state, content) == [final_result |-> content]

SqInit ==
    /\ sqState \in {SqState(r) : r \in SqRequests}
    /\ sqSched = {"research"}
    /\ sqRunning = {}
    /\ sqUpdates = EmptyDict
    /\ sqStepNodes = {"research"}
    /\ sqStatus = "running"
    /\ sqStarts = [n \in SqNodes |-> 0]
    /\ sqPrompts = EmptyDict

\* the workflow has not been invoked
SqIdle ==
    /\ sqState = EmptyDict
    /\ sqSched = {}
    /\ sqRunning = {}
    /\ sqUpdates = EmptyDict
    /\ sqStepNodes = {}
    /\ sqStatus = "idle"
    /\ sqStarts = [n \in SqNodes |-> 0]
    /\ sqPrompts = EmptyDict

\* a step of this workflow leaves the other workflows alone
SqFrame == UNCHANGED <<hvars, dvars, pvars, avars, swvars, hrvars, cvars, dbvars, jvars, vvars>>

\* a scheduled node starts on the state of the current superstep
SqStart ==
    /\ SqFrame
    /\ sqStatus = "running"
    /\ \E n \in sqSched :
          /\ sqSched' = sqSched \ {n}
          /\ sqRunning' = sqRunning \cup {n}
          /\ sqStarts' = [sqStarts EXCEPT ![n] = @ + 1]
    /\ UNCHANGED <<sqState, sqUpdates, sqStepNodes, sqStatus, sqPrompts>>

\* node n called its agent with these inputs and returns: its update waits
\* for the end of the superstep
SqReturn(n, inputs, update) ==
    /\ SqFrame
    /\ sqStatus = "running"
    /\ n \in sqRunning
    /\ sqRunning' = sqRunning \ {n}
    /\ sqPrompts' = (n :> inputs) @@ sqPrompts
    /\ sqUpdates' = (n :> update) @@ sqUpdates
    /\ UNCHANGED <<sqState, sqSched, sqStepNodes, sqStatus, sqStarts>>

SqResearch ==
    /\ "research" \in sqRunning
    /\ \E content \in SqTexts :
          SqReturn("research", research(sqState["user_request"]),
                   research_node(sqState, content))

SqAnalysis ==
    /\ "analysis" \in sqRunning
    /\ \E content \in SqTexts :
          SqReturn("analysis",
                   analyst_analyze(sqState["user_request"], sqState["research_result"]),
                   analysis_node(sqState, content))

SqWriting ==
    /\ "writing" \in sqRunning
    /\ \E content \in SqTexts :
          SqReturn("writing",
                   write(sqState["user_request"], sqState["research_result"],
                         sqState["analysis_result"]),
                   writing_node(sqState, content))

\* a model call raises in a node: nothing catches it inside the graph
SqNodeFails ==
    /\ SqFrame
    /\ sqStatus = "running"
    /\ sqRunning # {}
    /\ sqStatus' = "failed"
    /\ UNCHANGED <<sqState, sqSched, sqRunning, sqUpdates, sqStepNodes, sqStarts,
                   sqPrompts>>

\* the updates of the superstep's nodes merged into the state
RECURSIVE SqMergeAll(_, _)
SqMergeAll(state, nodes) ==
    IF nodes = {} THEN state
    ELSE LET n == CHOOSE m \in nodes : TRUE
         IN  SqMergeAll(Merge(state, sqUpdates[n]), nodes \ {n})

\* the nodes the edges leaving the superstep's nodes lead to
SqSuccessors == {edge[2] : edge \in {x \in SqEdges : x[1] \in sqStepNodes}}

\* end of a superstep: the updates are merged and the next nodes scheduled
SqApplyWrites ==
    /\ SqFrame
    /\ sqStatus = "running"
    /\ sqSched = {} /\ sqRunning = {} /\ sqStepNodes # {}
    /\ sqState' = SqMergeAll(sqState, sqStepNodes)
    /\ IF SqSuccessors \ {"END"} = {}
       THEN sqStatus' = "done" /\ sqSched' = {} /\ sqStepNodes' = {}
       ELSE /\ sqStatus' = "running"
            /\ sqSched' = SqSuccessors \ {"END"}
            /\ sqStepNodes' = SqSuccessors \ {"END"}
    /\ UNCHANGED <<sqRunning, sqUpdates, sqStarts, sqPrompts>>

SqNext ==
    \/ SqStart
    \/ SqResearch
    \/ SqAnalysis
    \/ SqWriting
    \/ SqNodeFails
    \/ SqApplyWrites

(***************************************************************************)
(* The supervisor-worker pattern of 8-patterns/1_supervisor_worker.py.     *)
(***************************************************************************)
SwRequests == {<<"blog post">>}

\* contents a worker or aggregation call may return (the empty text included)
SwTexts == {<<>>, <<"t1">>, <<"t2">>}

\* the keys of the workers dict of create_workflow
SwWorkers == {<<"Writer">>, <<"Researcher">>, <<"Analyst">>}

\* content of the planning reply that json.loads rejects
NotJson == [not_json |-> TRUE]

\* what json.loads makes of the planning reply, the code fence taken off:
\* no JSON, an object without "tasks", task lists naming known workers, an
\* unknown worker, no worker, a task without description, no task at all,
\* and a task that already carries a result
SwPlanReplies ==
    {NotJson,
     EmptyDict,
     [tasks |-> <<[task_id |-> 1, description |-> <<"d1">>, assigned_to |-> <<"Writer">>],
                  [task_id |-> 2, description |-> <<"d2">>, assigned_to |-> <<"Researcher">>]>>],
     [tasks |-> <<[task_id |-> 1, description |-> <<"d1">>, assigned_to |-> <<"Analyst">>],
                  [task_id |-> 2, description |-> <<"d2">>, assigned_to |-> <<"Editor">>]>>],
     [tasks |-> <<[task_id |-> 1, description |-> <<"d1">>]>>],
     [tasks |-> <<[task_id |-> 1]>>],
     [tasks |-> <<>>],
     [tasks |-> <<[task_id |-> 1, description |-> <<"d1">>, assigned_to |-> <<"writer">>,
                   result |-> <<"t0">>]>>]}

SwNodes == {"supervisor_plan", "workers_execute", "supervisor_aggregate"}

SwEdges ==
    {<<"supervisor_plan", "workers_execute">>,
     <<"workers_execute", "supervisor_aggregate">>,
     <<"supervisor_aggregate", "END">>}

\* State(user_request=...).model_dump()
SwState(user_request) ==
    [user_request |-> user_request, tasks |-> <<>>, final_result |-> None]

\* Task(**task): task_id and description are required (ValidationError)
TaskValid(task) == {"task_id", "description"} \subseteq DOMAIN task

\* Task(**task).model_dump(): the optional fields default to None
Task(task) ==
    [task_id |-> task["task_id"],
     description |-> task["description"],
     assigned_to |-> Get(task, "assigned_to", None),
     result |-> Get(task, "result", None)]

\* the two tasks plan falls back to when the reply cannot be used
PlanFallback ==
    <<Task([task_id |-> 1, description |-> <<"Research the topic">>,
            assigned_to |-> <<"Researcher">>]),
      Task([task_id |-> 2, description |-> <<"Create content">>,
            assigned_to |-> <<"Writer">>])>>

\* SupervisorAgent.plan: the tasks of the reply, or the fallback when
\* json.loads, data["tasks"] or Task(**task) raises
plan(reply) ==
    IF reply = NotJson \/ "tasks" \notin DOMAIN reply THEN PlanFallback
    ELSE IF \E i \in 1..Len(reply["tasks"]) : ~TaskValid(reply["tasks"][i])
         THEN PlanFallback
         ELSE [i \in 1..Len(reply["tasks"]) |-> Task(reply["tasks"][i])]

supervisor_plan_node(state, reply) == [tasks |-> plan(reply)]

\* the tasks workers_execute_node hands to a worker
executes(task) == task["assigned_to"] \in SwWorkers

\* workers_execute_node: contents[i] is what the worker returns for the
\* i-th task
workers_execute_node(state, contents) ==
    [tasks |-> [i \in 1..Len(state["tasks"]) |->
                  IF executes(state["tasks"][i])
                  THEN [state["tasks"][i] EXCEPT !["result"] = contents[i]]
                  ELSE state["tasks"][i]]]

\* f"Task {t.task_id} ({t.assigned_to}): {t.result}"
results_entry(t) ==
    <<"Task", ToString(t["task_id"]), "(">> \o t["assigned_to"] \o <<"):">> \o t["result"]

\* sep.join(entries)
RECURSIVE join(_, _)
join(sep, entries) ==
    IF entries = <<>> THEN <<>>
    ELSE IF Len(entries) = 1 THEN entries[1]
    ELSE entries[1] \o <<sep>> \o join(sep, Tail(entries))

\* the comprehension of SupervisorAgent.aggregate: one entry per task whose
\* result is truthy
RECURSIVE results_entries(_)
results_entries(tasks) ==
    IF tasks = <<>> THEN <<>>
    ELSE (IF Truthy(tasks[1]["result"]) THEN <<results_entry(tasks[1])>> ELSE <<>>)
         \o results_entries(Tail(tasks))

\* SupervisorAgent.aggregate: the results text of the prompt
results_text(tasks) == join("\n\n", results_entries(tasks))

supervisor_aggregate_node(state, final_result) == [final_result |-> final_result]

SwInit ==
    /\ swState \in {SwState(r) : r \in SwRequests}
    /\ swSched = {"supervisor_plan"}
    /\ swRunning = {}
    /\ swUpdates = EmptyDict
    /\ swStepNodes = {"supervisor_plan"}
    /\ swStatus = "running"
    /\ swStarts = [n \in SwNodes |-> 0]
    /\ swPlanned = <<>>
    /\ swExecuted = {}
    /\ swResults = None

\* the workflow has not been invoked
SwIdle ==
    /\ swState = EmptyDict
    /\ swSched = {}
    /\ swRunning = {}
    /\ swUpdates = EmptyDict
    /\ swStepNodes = {}
    /\ swStatus = "idle"
    /\ swStarts = [n \in SwNodes |-> 0]
    /\ swPlanned = <<>>
    /\ swExecuted = {}
    /\ swResults = None

\* a step of this workflow leaves the other workflows alone
SwFrame == UNCHANGED <<hvars, dvars, pvars, avars, sqvars, hrvars, cvars, dbvars, jvars, vvars>>

\* a scheduled node starts on the state of the current superstep
SwStart ==
    /\ SwFrame
    /\ swStatus = "running"
    /\ \E n \in swSched :
          /\ swSched' = swSched \ {n}
          /\ swRunning' = swRunning \cup {n}
          /\ swStarts' = [swStarts EXCEPT ![n] = @ + 1]
    /\ UNCHANGED <<swState, swUpdates, swStepNodes, swStatus, swPlanned, swExecuted,
                   swResults>>

\* node n returns: its update waits for the end of the superstep
SwReturn(n, update) ==
    /\ SwFrame
    /\ swStatus = "running"
    /\ n \in swRunning
    /\ swRunning' = swRunning \ {n}
    /\ swUpdates' = (n :> update) @@ swUpdates
    /\ UNCHANGED <<swState, swSched, swStepNodes, swStatus, swStarts>>

SwSupervisorPlan ==
    /\ "supervisor_plan" \in swRunning
    /\ \E reply \in SwPlanReplies :
          /\ SwReturn("supervisor_plan", supervisor_plan_node(swState, reply))
          /\ swPlanned' = plan(reply)
    /\ UNCHANGED <<swExecuted, swResults>>

SwWorkersExecute ==
    /\ "workers_execute" \in swRunning
    /\ \E contents \in [1..Len(swState["tasks"]) -> SwTexts] :
          SwReturn("workers_execute", workers_execute_node(swState, contents))
    /\ swExecuted' = {i \in 1..Len(swState["tasks"]) : executes(swState["tasks"][i])}
    /\ UNCHANGED <<swPlanned, swResults>>

SwSupervisorAggregate ==
    /\ "supervisor_aggregate" \in swRunning
    /\ \E final \in SwTexts :
          SwReturn("supervisor_aggregate", supervisor_aggregate_node(swState, final))
    /\ swResults' = results_text(swState["tasks"])
    /\ UNCHANGED <<swPlanned, swExecuted>>

\* a model call raises in a node: nothing catches it inside the graph
SwNodeFails ==
    /\ SwFrame
    /\ swStatus = "running"
    /\ swRunning # {}
    /\ swStatus' = "failed"
    /\ UNCHANGED <<swState, swSched, swRunning, swUpdates, swStepNodes, swStarts,
                   swPlanned, swExecuted, swResults>>

\* the updates of the superstep's nodes merged into the state
RECURSIVE SwMergeAll(_, _)
SwMergeAll(state, nodes) ==
    IF nodes = {} THEN state
    ELSE LET n == CHOOSE m \in nodes : TRUE
         IN  SwMergeAll(Merge(state, swUpdates[n]), nodes \ {n})

\* the nodes the edges leaving the superstep's nodes lead to
SwSuccessors == {edge[2] : edge \in {x \in SwEdges : x[1] \in swStepNodes}}

\* end of a superstep: the updates are merged and the next nodes scheduled
SwApplyWrites ==
    /\ SwFrame
    /\ swStatus = "running"
    /\ swSched = {} /\ swRunning = {} /\ swStepNodes # {}
    /\ swState' = SwMergeAll(swState, swStepNodes)
    /\ IF SwSuccessors \ {"END"} = {}
       THEN swStatus' = "done" /\ swSched' = {} /\ swStepNodes' = {}
       ELSE /\ swStatus' = "running"
            /\ swSched' = SwSuccessors \ {"END"}
            /\ swStepNodes' = SwSuccessors \ {"END"}
    /\ UNCHANGED <<swRunning, swUpdates, swStarts, swPlanned, swExecuted, swResults>>

SwNext ==
    \/ SwStart
    \/ SwSupervisorPlan
    \/ SwWorkersExecute
    \/ SwSupervisorAggregate
    \/ SwNodeFails
    \/ SwApplyWrites

(***************************************************************************)
(* The hierarchical pattern of 8-patterns/4_hierarchical.py.               *)
(***************************************************************************)
HrRequests == {<<"new feature">>}

\* contents a model call may return (the empty text included)
HrTexts == {<<>>, <<"t1">>, <<"t2">>}

\* what json.loads makes of the delegation reply, the code fence taken off:
\* no JSON, an object without departments, tasks for both departments,
\* tasks for one department only, and a task without description
HrDelegateReplies ==
    {NotJson,
     EmptyDict,
     [department_a |-> <<[task_id |-> 1, description |-> <<"d1">>]>>,
      department_b |-> <<[task_id |-> 1, description |-> <<"d2">>]>>],
     [department_a |-> <<[task_id |-> 1, description |-> <<"d1">>],
                         [task_id |-> 2, description |-> <<"d3">>]>>],
     [department_a |-> <<[task_id |-> 1]>>,
      department_b |-> <<[task_id |-> 1, description |-> <<"d2">>]>>]}

HrNodes == {"top_manager", "dept_a_manager", "dept_b_manager", "top_aggregator"}

HrEdges ==
    {<<"top_manager", "dept_a_manager">>,
     <<"dept_a_manager", "dept_b_manager">>,
     <<"dept_b_manager", "top_aggregator">>,
     <<"top_aggregator", "END">>}

\* State(user_request=...).model_dump()
HrState(user_request) ==
    [user_request |-> user_request,
     department_a_tasks |-> <<>>,
     department_b_tasks |-> <<>>,
     department_a_results |-> <<>>,
     department_b_results |-> <<>>,
     final_result |-> None]

\* Task(**t, department=...).model_dump()
DeptTask(t, department) ==
    [task_id |-> t["task_id"],
     description |-> t["description"],
     department |-> <<department>>,
     result |-> Get(t, "result", None)]

\* the tasks of one department: data.get(key, []) turned into Tasks
DeptTasks(data, key, department) ==
    LET listed == Get(data, key, <<>>)
    IN  [i \in 1..Len(listed) |-> DeptTask(listed[i], department)]

\* Task(**t, department=...) raises for some task of the reply
DelegateRaises(data) ==
    \E key \in {"department_a", "department_b"} :
       \E i \in 1..Len(Get(data, key, <<>>)) : ~TaskValid(Get(data, key, <<>>)[i])

\* TopManagerAgent.delegate: the tasks of the reply, or one fallback task
\* per department when json.loads or Task(...) raises
delegate(reply) ==
    IF reply = NotJson \/ DelegateRaises(reply)
    THEN [department_a_tasks |->
             <<DeptTask([task_id |-> 1, description |-> <<"Technical analysis">>], "A")>>,
          department_b_tasks |->
             <<DeptTask([task_id |-> 1, description |-> <<"Business analysis">>], "B")>>]
    ELSE [department_a_tasks |-> DeptTasks(reply, "department_a", "A"),
          department_b_tasks |-> DeptTasks(reply, "department_b", "B")]

top_manager_node(state, reply) == delegate(reply)

\* f"Task {t.task_id}: {t.description}"
task_line(t) == <<"Task", ToString(t["task_id"]), ":">> \o t["description"]

\* DepartmentManagerAgent.coordinate: the inputs of chain.invoke
coordinate(user_request, tasks) ==
    [user_request |-> user_request,
     tasks |-> join("\n", [i \in 1..Len(tasks) |-> task_line(tasks[i])])]

\* results = [response.content]
dept_a_manager_node(state, content) == [department_a_results |-> <<content>>]

dept_b_manager_node(state, content) == [department_b_results |-> <<content>>]

\* TopManagerAggregator.aggregate: the inputs of chain.invoke
top_aggregate(user_request, dept_a_results, dept_b_results) ==
    [user_request |-> user_request,
     results |-> <<"\n", "Department A Results:", "\n">> \o join("\n", dept_a_results)
                 \o <<"\n\n", "Department B Results:", "\n">> \o join("\n", dept_b_results)
                 \o <<"\n">>]

top_aggregator_node(state, final) == [final_result |-> final]

HrInit ==
    /\ hrState \in {HrState(r) : r \in HrRequests}
    /\ hrSched = {"top_manager"}
    /\ hrRunning = {}
    /\ hrUpdates = EmptyDict
    /\ hrStepNodes = {"top_manager"}
    /\ hrStatus = "running"
    /\ hrStarts = [n \in HrNodes |-> 0]
    /\ hrPrompts = EmptyDict

\* the workflow has not been invoked
HrIdle ==
    /\ hrState = EmptyDict
    /\ hrSched = {}
    /\ hrRunning = {}
    /\ hrUpdates = EmptyDict
    /\ hrStepNodes = {}
    /\ hrStatus = "idle"
    /\ hrStarts = [n \in HrNodes |-> 0]
    /\ hrPrompts = EmptyDict

\* a step of this workflow leaves the other workflows alone
HrFrame == UNCHANGED <<hvars, dvars, pvars, avars, sqvars, swvars, cvars, dbvars, jvars, vvars>>

\* a scheduled node starts on the state of the current superstep
HrStart ==
    /\ HrFrame
    /\ hrStatus = "running"
    /\ \E n \in hrSched :
          /\ hrSched' = hrSched \ {n}
          /\ hrRunning' = hrRunning \cup {n}
          /\ hrStarts' = [hrStarts EXCEPT ![n] = @ + 1]
    /\ UNCHANGED <<hrState, hrUpdates, hrStepNodes, hrStatus, hrPrompts>>

\* node n called its agent with these inputs and returns: its update waits
\* for the end of the superstep
HrReturn(n, inputs, update) ==
    /\ HrFrame
    /\ hrStatus = "running"
    /\ n \in hrRunning
    /\ hrRunning' = hrRunning \ {n}
    /\ hrPrompts' = (n :> inputs) @@ hrPrompts
    /\ hrUpdates' = (n :> update) @@ hrUpdates
    /\ UNCHANGED <<hrState, hrSched, hrStepNodes, hrStatus, hrStarts>>

HrTopManager ==
    /\ "top_manager" \in hrRunning
    /\ \E reply \in HrDelegateReplies :
          HrReturn("top_manager", [user_request |-> hrState["user_request"]],
                   top_manager_node(hrState, reply))

HrDeptAManager ==
    /\ "dept_a_manager" \in hrRunning
    /\ \E content \in HrTexts :
          HrReturn("dept_a_manager",
                   coordinate(hrState["user_request"], hrState["department_a_tasks"]),
                   dept_a_manager_node(hrState, content))

HrDeptBManager ==
    /\ "dept_b_manager" \in hrRunning
    /\ \E content \in HrTexts :
          HrReturn("dept_b_manager",
                   coordinate(hrState["user_request"], hrState["department_b_tasks"]),
                   dept_b_manager_node(hrState, content))

HrTopAggregator ==
    /\ "top_aggregator" \in hrRunning
    /\ \E final \in HrTexts :
          HrReturn("top_aggregator",
                   top_aggregate(hrState["user_request"], hrState["department_a_results"],
                                 hrState["department_b_results"]),
                   top_aggregator_node(hrState, final))

\* a model call raises in a node: nothing catches it inside the graph
HrNodeFails ==
    /\ HrFrame
    /\ hrStatus = "running"
    /\ hrRunning # {}
    /\ hrStatus' = "failed"
    /\ UNCHANGED <<hrState, hrSched, hrRunning, hrUpdates, hrStepNodes, hrStarts,
                   hrPrompts>>

\* the updates of the superstep's nodes merged into the state
RECURSIVE HrMergeAll(_, _)
HrMergeAll(state, nodes) ==
    IF nodes = {} THEN state
    ELSE LET n == CHOOSE m \in nodes : TRUE
         IN  HrMergeAll(Merge(state, hrUpdates[n]), nodes \ {n})

\* the nodes the edges leaving the superstep's nodes lead to
HrSuccessors == {edge[2] : edge \in {x \in HrEdges : x[1] \in hrStepNodes}}

\* end of a superstep: the updates are merged and the next nodes scheduled
HrApplyWrites ==
    /\ HrFrame
    /\ hrStatus = "running"
    /\ hrSched = {} /\ hrRunning = {} /\ hrStepNodes # {}
    /\ hrState' = HrMergeAll(hrState, hrStepNodes)
    /\ IF HrSuccessors \ {"END"} = {}
       THEN hrStatus' = "done" /\ hrSched' = {} /\ hrStepNodes' = {}
       ELSE /\ hrStatus' = "running"
            /\ hrSched' = HrSuccessors \ {"END"}
            /\ hrStepNodes' = HrSuccessors \ {"END"}
    /\ UNCHANGED <<hrRunning, hrUpdates, hrStarts, hrPrompts>>

HrNext ==
    \/ HrStart
    \/ HrTopManager
    \/ HrDeptAManager
    \/ HrDeptBManager
    \/ HrTopAggregator
    \/ HrNodeFails
    \/ HrApplyWrites

(***************************************************************************)
(* The RAG pipeline of 5-MidTermProject: run_pipeline of main.py and of    *)
(* api_server.py over the Redis cache of cache_store.py.                   *)
(***************************************************************************)
CQuestions == {<<"q1">>, <<"q2">>}

\* contents the model, or a post-processing step, may return
CTexts == {<<>>, <<"t1">>, <<"t2">>}

\* contexts retrieve_context may return
CContexts == {<<>>, <<"c1">>}

\* the scripts that define run_pipeline
CScripts == {"main", "api_server"}

\* no call of run_pipeline yet
NoRun == EmptyDict

\* str.encode(): what redis-py sends for a str value
encode(text) == [i \in 1..Len(text) |-> <<text[i]>>]

\* bytes.decode()
decode(bytes) == [i \in 1..Len(bytes) |-> bytes[i][1]]

\* cache_store._key
_key(k) == <<"rag:cache:">> \o k

\* cache_store.get: None when the key is absent or its value is empty
get(cache, k) ==
    IF _key(k) \in DOMAIN cache /\ cache[_key(k)] # <<>>
    THEN decode(cache[_key(k)])
    ELSE None

\* cache_store.set: SETEX of the value under the key
set(cache, k, v) == (_key(k) :> encode(v)) @@ cache

\* router.build_prompt: the prompt handed to the model
build_prompt(question, context) ==
    (IF Strip(context) # <<>> THEN <<"Context:">> \o context ELSE <<>>)
    \o <<"Question:">> \o question \o <<"Answer:">>

\* postprocess.secured_output: the texts it may return
secured_output(response) == CTexts

\* guardrails.apply_guardrails: the texts it may return
apply_guardrails(response) == CTexts

\* the calls run_pipeline makes when the cache misses, in order
MissCalls(script) ==
    IF script = "main"
    THEN <<"get_cache", "retrieve_context", "build_prompt", "llm_call", "set_cache">>
    ELSE <<"get_cache", "retrieve_context", "record_metric", "build_prompt", "llm_call",
           "record_metric", "secured_output", "apply_guardrails", "set_cache", "log">>

\* the calls before the one that raises, that one included
CallsUpTo(script, call) ==
    SubSeq(MissCalls(script), 1,
           CHOOSE i \in 1..Len(MissCalls(script)) :
              /\ MissCalls(script)[i] = call
              /\ \A j \in 1..(i - 1) : MissCalls(script)[j] # call)

\* the calls of run_pipeline that may raise: Redis, the vector store, the model
CRaising == {"get_cache", "retrieve_context", "llm_call", "set_cache"}

\* one call of run_pipeline, as the caller and the collaborators saw it
Run(script, question, outcome, calls, prompt, response) ==
    [script |-> script, question |-> question, outcome |-> outcome, calls |-> calls,
     prompt |-> prompt, response |-> response, after_expiry |-> cExpired]

\* Redis is up and no question has been asked
CInit ==
    /\ cCache = EmptyDict
    /\ cPrev = NoRun
    /\ cLast = NoRun
    /\ cExpired = FALSE

\* the pipeline is not used
CIdle ==
    /\ cCache = EmptyDict
    /\ cPrev = NoRun
    /\ cLast = NoRun
    /\ cExpired = FALSE

\* a step of the pipeline leaves the workflows alone
CFrame == UNCHANGED <<hvars, dvars, pvars, avars, sqvars, swvars, hrvars, dbvars, jvars, vvars>>

\* run_pipeline returns the cached response
CRunPipelineHit ==
    /\ CFrame
    /\ \E script \in CScripts, question \in CQuestions :
          /\ Truthy(get(cCache, question))
          /\ cLast' = Run(script, question, "hit", <<"get_cache">>, None,
                          get(cCache, question))
    /\ cPrev' = cLast
    /\ cExpired' = FALSE
    /\ UNCHANGED cCache

\* run_pipeline misses the cache, asks the model and stores the response
CRunPipelineMiss ==
    /\ CFrame
    /\ \E script \in CScripts, question \in CQuestions, context \in CContexts,
          content \in CTexts :
          /\ ~Truthy(get(cCache, question))
          /\ \E response \in (IF script = "main" THEN {content}
                              ELSE UNION {apply_guardrails(secured) :
                                             secured \in secured_output(content)}) :
                /\ cCache' = set(cCache, question, response)
                /\ cLast' = Run(script, question, "miss", MissCalls(script),
                                build_prompt(question, context), response)
    /\ cPrev' = cLast
    /\ cExpired' = FALSE

\* a call of run_pipeline raises in Redis, in the vector store or in the
\* model: run_pipeline catches nothing
CRunPipelineRaises ==
    /\ CFrame
    /\ \E script \in CScripts, question \in CQuestions, call \in CRaising :
          /\ call # "get_cache" => ~Truthy(get(cCache, question))
          /\ cLast' = Run(script, question, "raised", CallsUpTo(script, call), None, None)
    /\ cPrev' = cLast
    /\ cExpired' = FALSE
    /\ UNCHANGED cCache

\* the TTL of a key elapses: Redis drops it
CExpire ==
    /\ CFrame
    /\ \E key \in DOMAIN cCache :
          cCache' = [k \in DOMAIN cCache \ {key} |-> cCache[k]]
    /\ cExpired' = TRUE
    /\ UNCHANGED <<cPrev, cLast>>

CNext ==
    \/ CRunPipelineHit
    \/ CRunPipelineMiss
    \/ CRunPipelineRaises
    \/ CExpire

(***************************************************************************)
(* The session context managers get_db and get_vector_db of                *)
(* 11-Enterprise-Project-Demo/src/db/session.py and get_db_session of      *)
(* in-class-files/03_database_session.py.                                  *)
(***************************************************************************)
\* session operations the body of a with statement may call
MaxBodyOps == 2

DbManagers == {"get_db", "get_vector_db", "get_db_session"}

\* exceptions a body or a session operation may raise; KeyboardInterrupt
\* derives from BaseException only
DbExceptions == {"ValueError", "OperationalError", "KeyboardInterrupt"}

\* operations a body calls on the session it is given (db/vector_store.py
\* adds a document and commits)
DbBodyOps == {"add", "commit"}

\* except Exception: the exceptions the handler catches
Catches(e) == e \in {"ValueError", "OperationalError"}

\* a manager without handler: every exception goes to the finally block
AfterRaise_no_handler(e) == "close"

\* where an exception raised in the try block takes the manager: to the
\* handler's rollback when it is caught, else straight to the finally block
AfterRaise(e) == IF Catches(e) THEN "rollback" ELSE "close"

\* one operation on the session
DbOp(op, by) == [op |-> op, by |-> by]

\* a with statement is about to call one of the context managers
DbInit ==
    /\ dbManager \in DbManagers
    /\ dbPc = "enter"
    /\ dbOps = <<>>
    /\ dbBody = "running"
    /\ dbCommitExc = "none"
    /\ dbRollbackExc = "none"
    /\ dbCloseExc = "none"
    /\ dbPending = "none"
    /\ dbRaised = "none"

\* no session is requested
DbIdle ==
    /\ dbManager = "none"
    /\ dbPc = "idle"
    /\ dbOps = <<>>
    /\ dbBody = "running"
    /\ dbCommitExc = "none"
    /\ dbRollbackExc = "none"
    /\ dbCloseExc = "none"
    /\ dbPending = "none"
    /\ dbRaised = "none"

\* a step of a context manager leaves the workflows and the pipeline alone
DbFrame == UNCHANGED <<hvars, dvars, pvars, avars, sqvars, swvars, hrvars, cvars, jvars, vvars>>

\* db = SessionLocal(); yield db: the body starts with the session
DbEnter ==
    /\ DbFrame
    /\ dbPc = "enter"
    /\ dbPc' = "body"
    /\ UNCHANGED <<dbManager, dbOps, dbBody, dbCommitExc, dbRollbackExc, dbCloseExc,
                   dbPending, dbRaised>>

\* the session factory raises: there is no session and no try block yet
DbFactoryRaises ==
    /\ DbFrame
    /\ dbPc = "enter"
    /\ dbPc' = "exited"
    /\ \E e \in DbExceptions : dbRaised' = e
    /\ UNCHANGED <<dbManager, dbOps, dbBody, dbCommitExc, dbRollbackExc, dbCloseExc,
                   dbPending>>

\* the body calls an operation on the session, which returns
DbBodyOp ==
    /\ DbFrame
    /\ dbPc = "body"
    /\ Len(dbOps) < MaxBodyOps
    /\ \E op \in DbBodyOps : dbOps' = Append(dbOps, DbOp(op, "body"))
    /\ UNCHANGED <<dbManager, dbPc, dbBody, dbCommitExc, dbRollbackExc, dbCloseExc,
                   dbPending, dbRaised>>

\* the body ends: the generator resumes after the yield
DbBodyCompletes ==
    /\ DbFrame
    /\ dbPc = "body"
    /\ dbBody' = "completed"
    /\ dbPc' = "commit"
    /\ UNCHANGED <<dbManager, dbOps, dbCommitExc, dbRollbackExc, dbCloseExc,
                   dbPending, dbRaised>>

\* the body raises: the exception is thrown into the generator at the yield
DbBodyRaises ==
    /\ DbFrame
    /\ dbPc = "body"
    /\ \E e \in DbExceptions :
          /\ dbBody' = e
          /\ dbPending' = e
          /\ dbPc' = AfterRaise(e)
    /\ UNCHANGED <<dbManager, dbOps, dbCommitExc, dbRollbackExc, dbCloseExc, dbRaised>>

\* db.commit() after the yield: it returns or raises
DbCommit ==
    /\ DbFrame
    /\ dbPc = "commit"
    /\ dbOps' = Append(dbOps, DbOp("commit", "manager"))
    /\ \/ /\ dbPc' = "close"
          /\ UNCHANGED <<dbCommitExc, dbPending>>
       \/ \E e \in DbExceptions :
             /\ dbCommitExc' = e
             /\ dbPending' = e
             /\ dbPc' = AfterRaise(e)
    /\ UNCHANGED <<dbManager, dbBody, dbRollbackExc, dbCloseExc, dbRaised>>

\* db.rollback() in the handler: it returns and the bare raise re-raises
\* the caught exception, or it raises itself
DbRollback ==
    /\ DbFrame
    /\ dbPc = "rollback"
    /\ dbOps' = Append(dbOps, DbOp("rollback", "manager"))
    /\ dbPc' = "close"
    /\ \/ UNCHANGED <<dbRollbackExc, dbPending>>
       \/ \E e \in DbExceptions :
             /\ dbRollbackExc' = e
             /\ dbPending' = e
    /\ UNCHANGED <<dbManager, dbBody, dbCommitExc, dbCloseExc, dbRaised>>

\* db.close() in the finally block: the exception in flight, if any, leaves
\* the with statement, unless close raises itself
DbClose ==
    /\ DbFrame
    /\ dbPc = "close"
    /\ dbOps' = Append(dbOps, DbOp("close", "manager"))
    /\ dbPc' = "exited"
    /\ \/ /\ dbRaised' = dbPending
          /\ UNCHANGED dbCloseExc
       \/ \E e \in DbExceptions :
             /\ dbCloseExc' = e
             /\ dbRaised' = e
    /\ UNCHANGED <<dbManager, dbBody, dbCommitExc, dbRollbackExc, dbPending>>

DbNext ==
    \/ DbEnter
    \/ DbFactoryRaises
    \/ DbBodyOp
    \/ DbBodyCompletes
    \/ DbBodyRaises
    \/ DbCommit
    \/ DbRollback
    \/ DbClose

(***************************************************************************)
(* The retry loop of 1-foundations-langchain/8-json-formatted-output.py.   *)
(***************************************************************************)
\* the largest --max_retries tried (the default is 2)
MaxRetriesArg == 2

JProductNames == {<<"phone">>, <<"laptop">>}

JDescriptions == {<<"fast">>, <<"light">>}

\* --max_retries is any int: a negative value leaves the range empty
JMaxRetries == (-1)..MaxRetriesArg

\* contents the model may return, line by line: a ProductInfo object, the
\* same with blanks around it, the same inside a markdown fence, text that
\* is no JSON, a JSON object that is no ProductInfo, and an unclosed fence
JContents ==
    {<<"{product}">>,
     <<" ", "{product}", " ">>,
     <<"<fence>json", "{product}", "<fence>">>,
     <<"not json">>,
     <<"{no name}">>,
     <<"<fence>json", "{product}">>}

\* line.startswith of the three-backquote fence, written <fence>
StartsWithFence(line) == line \in {"<fence>", "<fence>json"}

\* line.endswith of the fence
EndsWithFence(line) == line = "<fence>"

\* lines 93-95: strip, then drop the first and the last line of a fenced
\* content
Unfence(content) ==
    LET stripped == Strip(content)
    IN  IF /\ stripped # <<>>
           /\ StartsWithFence(stripped[1])
           /\ EndsWithFence(stripped[Len(stripped)])
        THEN SubSeq(stripped, 2, Len(stripped) - 1)
        ELSE stripped

\* json.loads(content) returns
IsJson(content) == content \in {<<"{product}">>, <<"{no name}">>}

\* parser.parse(content) returns a ProductInfo (name and category given)
IsProductInfo(content) == content = <<"{product}">>

\* prompt.format(**variables), with the hint message on a retry
Prompt(args, attempt, hint) ==
    <<"INPUT_NAME:">> \o args["product_name"]
    \o <<"INPUT_DESCRIPTION:">> \o args["description"]
    \o (IF attempt = 0 THEN <<>> ELSE <<"Here is the error encountered:">> \o hint)

\* the script starts: arguments parsed, last_error_hint blank
JInit ==
    /\ jArgs \in {[product_name |-> n, description |-> d, max_retries |-> m] :
                     n \in JProductNames, d \in JDescriptions, m \in JMaxRetries}
    /\ jPc = "prepare"
    /\ jAttempt = 0
    /\ jHint = <<>>
    /\ jPrompt = None
    /\ jResponse = None
    /\ jCalls = 0
    /\ jError = "none"

\* the script is not run
JIdle ==
    /\ jArgs = EmptyDict
    /\ jPc = "idle"
    /\ jAttempt = 0
    /\ jHint = <<>>
    /\ jPrompt = None
    /\ jResponse = None
    /\ jCalls = 0
    /\ jError = "none"

\* a step of the script leaves the rest alone
JFrame == UNCHANGED <<hvars, dvars, pvars, avars, sqvars, swvars, hrvars, cvars, dbvars, vvars>>

\* top of the loop body: the prompt of this attempt is prepared, or the
\* range is used up and the script ends
JPrepare ==
    /\ JFrame
    /\ jPc = "prepare"
    /\ IF jAttempt < jArgs["max_retries"] + 1
       THEN /\ jPrompt' = Prompt(jArgs, jAttempt, jHint)
            /\ jPc' = "invoke"
       ELSE /\ jPc' = "exhausted"
            /\ UNCHANGED jPrompt
    /\ UNCHANGED <<jArgs, jAttempt, jHint, jResponse, jCalls, jError>>

\* llm_gemini.invoke(prompt_prepared) returns
JInvoke ==
    /\ JFrame
    /\ jPc = "invoke"
    /\ jCalls' = jCalls + 1
    /\ \E content \in JContents : jResponse' = content
    /\ jPc' = "check"
    /\ UNCHANGED <<jArgs, jAttempt, jHint, jPrompt, jError>>

\* llm_gemini.invoke raises: nothing catches it
JInvokeRaises ==
    /\ JFrame
    /\ jPc = "invoke"
    /\ jCalls' = jCalls + 1
    /\ jPc' = "failed"
    /\ jError' = "Exception"
    /\ UNCHANGED <<jArgs, jAttempt, jHint, jPrompt, jResponse>>

\* lines 93-110: the content is unfenced and checked; invalid JSON raises
\* ValueError out of the loop, a content that is no ProductInfo makes
\* parser.parse raise, and a ProductInfo breaks out of the loop
JCheck ==
    /\ JFrame
    /\ jPc = "check"
    /\ IF ~IsJson(Unfence(jResponse))
       THEN jPc' = "failed" /\ jError' = "ValueError"
       ELSE IF ~IsProductInfo(Unfence(jResponse))
            THEN jPc' = "failed" /\ jError' = "OutputParserException"
            ELSE jPc' = "done" /\ UNCHANGED jError
    /\ UNCHANGED <<jArgs, jAttempt, jHint, jPrompt, jResponse, jCalls>>

JNext ==
    \/ JPrepare
    \/ JInvoke
    \/ JInvokeRaises
    \/ JCheck

(***************************************************************************)
(* Retrieval of 5-MidTermProject/vector_store.py.                          *)
(***************************************************************************)
\* the largest k asked for
MaxK == 3

VQueries == {<<"agentic ai?">>, <<"redis?">>}

\* documents an index may hold, with their distance to the query: two of
\* them have the same text, two of them the same distance
VDocuments ==
    {[document |-> [id |-> 1, page_content |-> <<"a">>], score |-> 1],
     [document |-> [id |-> 2, page_content |-> <<"a">>], score |-> 2],
     [document |-> [id |-> 3, page_content |-> <<"b">>], score |-> 1]}

\* the orders in which the index may rank its documents: nearest first,
\* equal distances in either order
VRankings(store) ==
    {r \in [1..Cardinality(store) -> store] :
        /\ \A i, j \in DOMAIN r : i # j => r[i] # r[j]
        /\ \A i, j \in DOMAIN r : i < j => r[i]["score"] <= r[j]["score"]}

\* RedisVectorStore.similarity_search_with_score: the k nearest (document,
\* score) results of a ranking
similarity_search_with_score(ranking, k) ==
    SubSeq(ranking, 1, IF k < Len(ranking) THEN k ELSE Len(ranking))

\* RedisVectorStore.similarity_search: the documents of the same results
similarity_search(ranking, k) ==
    [i \in DOMAIN similarity_search_with_score(ranking, k) |->
        similarity_search_with_score(ranking, k)[i]["document"]]

\* retrieve_documents: [d.page_content for d in results]
retrieve_documents(results) ==
    [i \in DOMAIN results |-> results[i]["page_content"]]

\* a comprehension that lists the results last to first
retrieve_documents_with_score_reversed(results) ==
    [i \in DOMAIN results |->
        <<results[Len(results) + 1 - i]["document"]["page_content"],
          results[Len(results) + 1 - i]["score"]>>]

\* retrieve_documents_with_score: [(d.page_content, score) for d, score in results]
retrieve_documents_with_score(results) ==
    [i \in DOMAIN results |->
        <<results[i]["document"]["page_content"], results[i]["score"]>>]

\* an index with some documents, and a query
VInit ==
    /\ vStore \in SUBSET VDocuments
    /\ vQuery \in VQueries
    /\ vCall = EmptyDict
    /\ vFound = <<>>
    /\ vResult = <<>>
    /\ vStatus = "ready"

\* the module is not used
VIdle ==
    /\ vStore = {}
    /\ vQuery = <<>>
    /\ vCall = EmptyDict
    /\ vFound = <<>>
    /\ vResult = <<>>
    /\ vStatus = "idle"

\* a call of a retrieval function leaves the rest alone
VFrame ==
    UNCHANGED <<hvars, dvars, pvars, avars, sqvars, swvars, hrvars, cvars, dbvars, jvars>>

\* retrieve_documents_with_score(query, k) returns
VRetrieveWithScore ==
    /\ VFrame
    /\ vStatus # "idle"
    /\ \E k \in 1..MaxK, ranking \in VRankings(vStore) :
          /\ vCall' = [function |-> "retrieve_documents_with_score", k |-> k]
          /\ vFound' = similarity_search_with_score(ranking, k)
          /\ vResult' = retrieve_documents_with_score(vFound')
    /\ vStatus' = "returned"
    /\ UNCHANGED <<vStore, vQuery>>

\* retrieve_documents(query, k) returns; vFound keeps the scored results
\* the documents of the search come from
VRetrieve ==
    /\ VFrame
    /\ vStatus # "idle"
    /\ \E k \in 1..MaxK, ranking \in VRankings(vStore) :
          /\ vCall' = [function |-> "retrieve_documents", k |-> k]
          /\ vFound' = similarity_search_with_score(ranking, k)
          /\ vResult' = retrieve_documents(similarity_search(ranking, k))
    /\ vStatus' = "returned"
    /\ UNCHANGED <<vStore, vQuery>>

\* get_vectorstore catches the connection error and returns None: the
\* search on None raises AttributeError
VStoreUnavailable ==
    /\ VFrame
    /\ vStatus # "idle"
    /\ \E f \in {"retrieve_documents", "retrieve_documents_with_score"}, k \in 1..MaxK :
          vCall' = [function |-> f, k |-> k]
    /\ vFound' = <<>>
    /\ vResult' = <<>>
    /\ vStatus' = "raised"
    /\ UNCHANGED <<vStore, vQuery>>

VNext ==
    \/ VRetrieveWithScore
    \/ VRetrieve
    \/ VStoreUnavailable

(***************************************************************************)
(* Specifications: one per workflow, the other workflows being idle.       *)
(***************************************************************************)
vars == <<hvars, dvars, pvars, avars, sqvars, swvars, hrvars, cvars, dbvars, jvars, vvars>>

\* the HITL graph is invoked
InitHITL ==
    LET init == HInit /\ DIdle /\ PIdle /\ AIdle /\ SqIdle /\ SwIdle /\ HrIdle /\ CIdle /\ DbIdle /\ JIdle /\ VIdle IN init

SpecHITL == InitHITL /\ [][HNext]_vars

\* DeliveryCommandCenterGraph.run is called
InitDelivery ==
    LET init == DInit /\ HIdle /\ PIdle /\ AIdle /\ SqIdle /\ SwIdle /\ HrIdle /\ CIdle /\ DbIdle /\ JIdle /\ VIdle IN init

SpecDelivery == InitDelivery /\ [][DNext]_vars

\* the workflow of 3_parallel.py is invoked
InitParallel ==
    LET init == PInit /\ HIdle /\ DIdle /\ AIdle /\ SqIdle /\ SwIdle /\ HrIdle /\ CIdle /\ DbIdle /\ JIdle /\ VIdle IN init

SpecParallel == InitParallel /\ [][PNext]_vars

\* the workflow of 3_1_paralell.py is invoked
InitAsyncParallel ==
    LET init == AInit /\ HIdle /\ DIdle /\ PIdle /\ SqIdle /\ SwIdle /\ HrIdle /\ CIdle /\ DbIdle /\ JIdle /\ VIdle IN init

SpecAsyncParallel == InitAsyncParallel /\ [][ANext]_vars

\* the workflow of 2_sequential.py is invoked
InitSequential ==
    LET init == SqInit /\ HIdle /\ DIdle /\ PIdle /\ AIdle /\ SwIdle /\ HrIdle /\ CIdle /\ DbIdle /\ JIdle /\ VIdle IN init

SpecSequential == InitSequential /\ [][SqNext]_vars

\* the workflow of 1_supervisor_worker.py is invoked
InitSupervisorWorker ==
    LET init == SwInit /\ HIdle /\ DIdle /\ PIdle /\ AIdle /\ SqIdle /\ HrIdle /\ CIdle /\ DbIdle /\ JIdle /\ VIdle IN init

SpecSupervisorWorker == InitSupervisorWorker /\ [][SwNext]_vars

\* the workflow of 4_hierarchical.py is invoked
InitHierarchical ==
    LET init == HrInit /\ HIdle /\ DIdle /\ PIdle /\ AIdle /\ SqIdle /\ SwIdle /\ CIdle /\ DbIdle /\ JIdle /\ VIdle IN init

SpecHierarchical == InitHierarchical /\ [][HrNext]_vars

\* one of the four pattern scripts is run: sequential, supervisor-worker,
\* parallel or hierarchical
InitPatterns ==
    LET init == \/ InitSequential
                \/ InitSupervisorWorker
                \/ InitParallel
                \/ InitHierarchical
    IN init

PatternsNext ==
    \/ SqNext
    \/ SwNext
    \/ PNext
    \/ HrNext

SpecPatterns == InitPatterns /\ [][PatternsNext]_vars

\* one of the graph workflows is invoked
InitGraphs ==
    LET init == \/ InitHITL
                \/ InitDelivery
                \/ InitPatterns
    IN  init

GraphsNext ==
    \/ HNext
    \/ DNext
    \/ PatternsNext

SpecGraphs == InitGraphs /\ [][GraphsNext]_vars

\* questions are put to the RAG pipeline
InitPipeline ==
    LET init == CInit /\ HIdle /\ DIdle /\ PIdle /\ AIdle /\ SqIdle /\ SwIdle /\ HrIdle /\ DbIdle /\ JIdle /\ VIdle IN init

SpecPipeline == InitPipeline /\ [][CNext]_vars

\* a with statement uses one of the session context managers
InitSessions ==
    LET init == DbInit /\ HIdle /\ DIdle /\ PIdle /\ AIdle /\ SqIdle /\ SwIdle /\ HrIdle /\ CIdle /\ JIdle /\ VIdle IN init

SpecSessions == InitSessions /\ [][DbNext]_vars

\* 8-json-formatted-output.py is run
InitJsonOutput ==
    LET init == JInit /\ HIdle /\ DIdle /\ PIdle /\ AIdle /\ SqIdle /\ SwIdle /\ HrIdle /\ CIdle /\ DbIdle /\ VIdle IN init

SpecJsonOutput == InitJsonOutput /\ [][JNext]_vars

\* the retrieval functions are called on an index
InitRetrieval ==
    LET init == VInit /\ HIdle /\ DIdle /\ PIdle /\ AIdle /\ SqIdle /\ SwIdle /\ HrIdle /\ CIdle /\ DbIdle /\ JIdle IN init

SpecRetrieval == InitRetrieval /\ [][VNext]_vars

(***************************************************************************)
(* Properties of the HITL graph.                                           *)
(***************************************************************************)
\* positions of a node in the trace of completed nodes
HRuns(node) == {i \in 1..Len(hTrace) : hTrace[i] = node}

\* the decision the run was resumed with
HDecision == Get(OrEmpty(hResponse), "decision", "approve")

\* C1: finalizer never runs before human_approval has returned with the
\* reviewer's decision: final_answer is unset as long as human_approval has
\* not returned (the pause included), risk_gate always requires approval so
\* finalizer is only ever scheduled right after human_approval, and every
\* finalizer run is preceded by a human_approval run that follows the writer.
C1_ApprovalBeforeFinalizer ==
    /\ (HRuns("human_approval") = {} \/ hStatus = "interrupted")
          => "final_answer" \notin DOMAIN hState
    /\ HRuns("risk_gate") # {} => hState["approval_required"] = TRUE
    /\ (hNode = "finalizer" /\ hTrace # <<>>) => hTrace[Len(hTrace)] = "human_approval"
    /\ \A f \in HRuns("finalizer") :
          /\ f > 1
          /\ hTrace[f - 1] = "human_approval"
          /\ \E w \in HRuns("writer_worker") : w < f - 1

\* C1 witness: a run that paused, was resumed and finalized
C1_Witness ==
    /\ hStatus = "done"
    /\ HRuns("finalizer") # {}
    /\ hPayload # EmptyDict
    /\ "final_answer" \in DOMAIN hState

\* C2: resumed with {decision: 'reject', reason: R}, the final answer is the
\* rejection notice followed by 'Reason: R', and not the draft.
C2_RejectCarriesReason ==
    (hStatus = "done" /\ HDecision = "reject" /\ "reason" \in DOMAIN hResponse)
        => /\ hState["final_answer"] = RejectNotice \o hResponse["reason"]
           /\ hState["final_answer"] # hState["draft"]

\* C3: approve releases the draft unchanged; edit with a non-empty
\* edited_text releases exactly that text; edit with a missing or empty
\* edited_text releases the draft.
C3_ApproveAndEdit ==
    hStatus = "done" =>
        LET edited == Get(OrEmpty(hResponse), "edited_text", None)
        IN  /\ HDecision = "approve" => hState["final_answer"] = hState["draft"]
            /\ (HDecision = "edit" /\ Truthy(edited)) => hState["final_answer"] = edited
            /\ (HDecision = "edit" /\ ~Truthy(edited)) => hState["final_answer"] = hState["draft"]

\* C3 witness: a finished run whose reviewer edited the draft into another text
C3_Witness ==
    /\ hStatus = "done"
    /\ HDecision = "edit"
    /\ "edited_text" \in DOMAIN hResponse
    /\ Truthy(hResponse["edited_text"])
    /\ hState["final_answer"] # hState["draft"]

\* C4: the supervisor routes to research first and then to write: the first
\* worker is research_worker, writer_worker runs only after research_worker
\* and never with empty research notes, no research follows the writer, and
\* writer_worker runs at most once.
C4_ResearchThenWrite ==
    /\ Len(hTrace) >= 2 => (hTrace[1] = "supervisor_router" /\ hTrace[2] = "research_worker")
    /\ hNode = "writer_worker" => Truthy(Get(hState, "research_notes", None))
    /\ \A w \in HRuns("writer_worker") :
          /\ Truthy(Get(hState, "research_notes", None))
          /\ \E r \in HRuns("research_worker") : r < w
          /\ \A r \in HRuns("research_worker") : r < w
    /\ Cardinality(HRuns("writer_worker")) <= 1

\* C4 witness: the writer has run, after research had to be repeated
C4_Witness ==
    /\ HRuns("writer_worker") # {}
    /\ Cardinality(HRuns("research_worker")) >= 2

(***************************************************************************)
(* Properties of the Delivery Command Center graph.                        *)
(***************************************************************************)
\* the nodes that have returned
DReturned == DOMAIN dUpdates

\* the run is over: run() has returned or graph.invoke has raised
DEnded == dStatus \in {"done", "invalid_update"}

\* the nodes with an edge to n
DPreds(n) == {edge[1] : edge \in {x \in DEdges : x[2] = n}}

\* the state key a node writes when it succeeds
DOutField(n) ==
    CASE n = "planner" -> "plan"
      [] n = "jira_analyst" -> "jira_analysis"
      [] n = "risk_agent" -> "risk_report"
      [] n = "dependency_agent" -> "dependency_analysis"
      [] n = "comms_agent" -> "comms_output"
      [] n = "action_agent" -> "proposed_actions"
      [] n = "governance_agent" -> "governance_check"
      [] n = "evaluator" -> "evaluation_results"
      [] n = "finalize" -> "final_output"

\* the elements of a list
Elems(list) == {list[i] : i \in 1..Len(list)}

\* C5: in every run each of the nine nodes executes exactly once and in the
\* order of the edges: no node starts twice, a node starts only after every
\* node with an edge to it has returned (risk_agent and dependency_agent
\* after jira_analyst, comms_agent after both), and when the run is over
\* all nine nodes have run.
C5_EachNodeOnceInOrder ==
    /\ \A n \in DNodes : dStarts[n] <= 1
    /\ \A n \in DNodes : dStarts[n] >= 1 => DPreds(n) \subseteq DReturned
    /\ DEnded => \A n \in DNodes : dStarts[n] = 1 /\ n \in DReturned

\* C6: when the body of a node raises, the node returns the previous errors
\* followed by one message naming it, its output field keeps {}, the graph
\* does not raise and every node still runs, and the final_output returned
\* by run() lists the message in errors.
C6_NodeFailureIsRecorded ==
    \A n \in DOMAIN dRaised :
        /\ n \in dStepNodes => dUpdates[n] = [errors |-> Append(dState["errors"], dRaised[n])]
        /\ dState[DOutField(n)] = EmptyDict
        /\ dStatus # "invalid_update"
        /\ dStatus = "done" =>
              /\ \A m \in DNodes : m \in DReturned
              /\ "errors" \in DOMAIN dResult
              /\ dRaised[n] \in Elems(dResult["errors"])

\* C7: when risk_agent and dependency_agent, which run in the same step,
\* both fail, the run still reaches finalize and finalize sees an errors
\* list with both messages and every earlier error.
C7_ParallelErrorsMerge ==
    {"risk_agent", "dependency_agent"} \subseteq DOMAIN dRaised =>
        /\ dStatus # "invalid_update"
        /\ DEnded => "finalize" \in DReturned
        /\ dStarts["finalize"] >= 1 =>
              \A n \in {"planner", "jira_analyst", "risk_agent", "dependency_agent"}
                        \cap DOMAIN dRaised :
                  dRaised[n] \in Elems(dState["errors"])

\* C8: when an agent's model call fails in a node, a message for the failure
\* is in the workflow's errors list once the node's update is merged, and a
\* run in which a model call failed never ends with an empty errors list in
\* final_output.
C8_LLMFailureReachesErrors ==
    /\ \A n \in dLLMFailed \ dStepNodes : dState["errors"] # <<>>
    /\ (dStatus = "done" /\ dLLMFailed # {}) =>
          /\ "errors" \in DOMAIN dResult
          /\ dResult["errors"] # <<>>

\* C9: no JIRA write operation is invoked during a run; the proposed
\* actions only appear as data in final_output.proposed_actions.
C9_ActionsOnlyPrepared ==
    /\ \A i \in 1..Len(dJira) : dJira[i] \notin JiraWriteOps
    /\ (dStatus = "done" /\ "proposed_actions" \in DOMAIN dResult) =>
          dResult["proposed_actions"] =
              IF Get(dState["proposed_actions"], "output", <<>>)
                     = <<"see", "{", "proposed_actions", ":", "[a1,a2]", "}">>
              THEN <<"a1", "a2">>
              ELSE <<>>

\* C9 witness: a finished run that read JIRA and proposes two actions
C9_Witness ==
    /\ dStatus = "done"
    /\ dJira # <<>>
    /\ "proposed_actions" \in DOMAIN dResult
    /\ dResult["proposed_actions"] = <<"a1", "a2">>

ACompleted == {aOrder[k] : k \in 1..Len(aOrder)}

\* C11: run_parallel_node keeps the three analyze calls in flight together
\* (while it awaits, every call is either in flight or completed, each on
\* its own inputs: its agent's perspective and the request); whatever the
\* order of completion, perspective_1, perspective_2 and perspective_3 of
\* the node's update are the results of the technical, business and user
\* experience calls; and the update exists only once all three completed.
C11_GatherKeepsArgumentOrder ==
    /\ aStatus = "gathering" =>
         /\ aInFlight \cup ACompleted = ACallIds
         /\ aInFlight \cap ACompleted = {}
         /\ \A i \in ACallIds :
              aCalls[i] = [user_request |-> aState["user_request"],
                           perspective |-> <<APerspectives[i]>>]
    /\ aUpdate # EmptyDict =>
         /\ aInFlight = {}
         /\ ACompleted = ACallIds
         /\ DOMAIN aUpdate = {APerspectiveKey(i) : i \in ACallIds}
         /\ \A i \in ACallIds :
              /\ aUpdate[APerspectiveKey(i)] = aResults[i]
              /\ aResults[i] # None
              /\ aState[APerspectiveKey(i)] = aResults[i]

\* the calls completed in another order than they were passed, with
\* different results, and the node has returned
C11_Witness ==
    /\ aUpdate # EmptyDict
    /\ aOrder = <<3, 1, 2>>
    /\ aResults[1] # aResults[3]

(***************************************************************************)
(* Properties of the pattern workflows.                                    *)
(***************************************************************************)
\* C12: a node that reads another node's output has started only if that
\* node has returned and its update is in the state, and what the reader
\* hands to its model call is that output: analysis after research and
\* writing after analysis (sequential); supervisor_aggregate after
\* workers_execute (supervisor-worker); aggregate after the three
\* perspective nodes (parallel); top_aggregator after both department
\* managers (hierarchical).
C12_ReadersRunAfterWriters ==
    /\ sqStarts["analysis"] >= 1 =>
          /\ "research" \in DOMAIN sqUpdates
          /\ sqState["research_result"] = sqUpdates["research"]["research_result"]
    /\ "analysis" \in DOMAIN sqPrompts =>
          sqPrompts["analysis"]["research"] = sqUpdates["research"]["research_result"]
    /\ sqStarts["writing"] >= 1 =>
          /\ {"research", "analysis"} \subseteq DOMAIN sqUpdates
          /\ sqState["research_result"] = sqUpdates["research"]["research_result"]
          /\ sqState["analysis_result"] = sqUpdates["analysis"]["analysis_result"]
    /\ "writing" \in DOMAIN sqPrompts =>
          /\ sqPrompts["writing"]["research"] = sqUpdates["research"]["research_result"]
          /\ sqPrompts["writing"]["analysis"] = sqUpdates["analysis"]["analysis_result"]
    /\ swStarts["supervisor_aggregate"] >= 1 =>
          /\ "workers_execute" \in DOMAIN swUpdates
          /\ swState["tasks"] = swUpdates["workers_execute"]["tasks"]
    /\ swResults # None =>
          swResults = results_text(swUpdates["workers_execute"]["tasks"])
    /\ pStarts["aggregate"] >= 1 =>
          /\ PerspectiveNodes \subseteq DOMAIN pUpdates
          /\ pState["perspective_1"] = pUpdates["parallel_1"]["perspective_1"]
          /\ pState["perspective_2"] = pUpdates["parallel_2"]["perspective_2"]
          /\ pState["perspective_3"] = pUpdates["parallel_3"]["perspective_3"]
    /\ hrStarts["top_aggregator"] >= 1 =>
          /\ {"dept_a_manager", "dept_b_manager"} \subseteq DOMAIN hrUpdates
          /\ hrState["department_a_results"] =
                hrUpdates["dept_a_manager"]["department_a_results"]
          /\ hrState["department_b_results"] =
                hrUpdates["dept_b_manager"]["department_b_results"]
    /\ "top_aggregator" \in DOMAIN hrPrompts =>
          hrPrompts["top_aggregator"] =
             top_aggregate(hrState["user_request"],
                           hrUpdates["dept_a_manager"]["department_a_results"],
                           hrUpdates["dept_b_manager"]["department_b_results"])

\* the writing node has called its model on the outputs of research and
\* analysis
C12_Witness ==
    /\ "writing" \in DOMAIN sqPrompts
    /\ sqPrompts["writing"]["research"] = <<"t1">>
    /\ sqPrompts["writing"]["analysis"] = <<"t2">>

\* text contains the tokens of sub, in a row
Contains(text, sub) ==
    \E k \in 0..(Len(text) - Len(sub)) : SubSeq(text, k + 1, k + Len(sub)) = sub

\* the tasks as workers_execute_node returned them
SwWorked == swUpdates["workers_execute"]["tasks"]

\* C13: the supervisor delegates every task it planned and aggregates every
\* result: once workers_execute has returned, each task plan returned has
\* been handed to a worker and carries a result, and the results text of
\* the aggregation prompt holds the entry of each of these tasks.
C13_EveryTaskDelegatedAndAggregated ==
    /\ "workers_execute" \in DOMAIN swUpdates =>
          /\ Len(SwWorked) = Len(swPlanned)
          /\ \A i \in 1..Len(swPlanned) :
                /\ i \in swExecuted
                /\ SwWorked[i]["result"] # None
    /\ swResults # None =>
          \A i \in 1..Len(swPlanned) : Contains(swResults, results_entry(SwWorked[i]))

(***************************************************************************)
(* Properties of the RAG pipeline.                                         *)
(***************************************************************************)
\* the calls of a run among retrieval, prompt building, model and cache write
PipelineCalls(run) ==
    SelectSeq(run["calls"],
              LAMBDA c : c \in {"retrieve_context", "build_prompt", "llm_call", "set_cache"})

\* C14: a run that hits the cache returns the response the cache holds,
\* having called only the cache read; a run that misses calls retrieval, build_prompt, the
\* model and the cache write in this order and leaves its response under
\* the question; and a run that follows a miss on the same question, no key
\* having expired in between, and that returns, is a hit with the same
\* response and without a model call.
C14_MissThenHit ==
    /\ (cLast # NoRun /\ cLast["outcome"] = "hit") =>
          /\ cLast["calls"] = <<"get_cache">>
          /\ (~cExpired => cLast["response"] = get(cCache, cLast["question"]))
    /\ (cLast # NoRun /\ cLast["outcome"] = "miss") =>
          /\ PipelineCalls(cLast) =
                <<"retrieve_context", "build_prompt", "llm_call", "set_cache">>
          /\ (~cExpired => _key(cLast["question"]) \in DOMAIN cCache)
    /\ (/\ cPrev # NoRun /\ cLast # NoRun
        /\ cPrev["outcome"] = "miss"
        /\ cLast["question"] = cPrev["question"]
        /\ ~cLast["after_expiry"]
        /\ cLast["outcome"] # "raised") =>
          /\ cLast["outcome"] = "hit"
          /\ cLast["response"] = cPrev["response"]
          /\ \A i \in 1..Len(cLast["calls"]) : cLast["calls"][i] # "llm_call"

(***************************************************************************)
(* Properties of the session context managers.                             *)
(***************************************************************************)
\* the positions of dbOps where op was called (by the given caller)
DbCalls(op) == {i \in 1..Len(dbOps) : dbOps[i]["op"] = op}

DbManagerCalls(op) == {i \in DbCalls(op) : dbOps[i]["by"] = "manager"}

\* the with statement is over and had a session
DbUsed == dbPc = "exited" /\ dbBody # "running"

\* the exception of the body, or of the manager's commit, or "none"
DbFirstExc == IF dbBody # "completed" THEN dbBody ELSE dbCommitExc

\* no commit comes after a rollback
DbNoCommitAfterRollback ==
    \A i \in DbCalls("rollback"), j \in DbCalls("commit") : j < i

\* close was called once, after every other operation on the session
DbClosedLast ==
    /\ Cardinality(DbCalls("close")) = 1
    /\ dbOps[Len(dbOps)]["op"] = "close"

\* C15 as stated: when the body completes the session sees one commit; when
\* the body or the commit raises, rollback is called and that exception
\* leaves the with statement; close is called once and last; no commit
\* follows a rollback.
C15_CommitOrRollbackThenClose ==
    /\ DbNoCommitAfterRollback
    /\ DbUsed =>
          /\ DbClosedLast
          /\ dbBody = "completed" => Cardinality(DbCalls("commit")) = 1
          /\ DbFirstExc # "none" =>
                /\ Cardinality(DbCalls("rollback")) = 1
                /\ dbRaised = DbFirstExc

\* C15 amended: when the body completes the manager calls commit once, after
\* the body's own operations; when the body or that commit raises an
\* exception the handler catches (an Exception), the manager calls rollback
\* once and the exception leaves the with statement unless rollback or
\* close raises in turn; an exception the handler does not catch (a
\* KeyboardInterrupt) leaves without a rollback; close is called once and
\* last on every path; no commit follows a rollback.
C15_CommitOrRollbackOfCaught ==
    /\ DbNoCommitAfterRollback
    /\ DbUsed =>
          /\ DbClosedLast
          /\ dbBody = "completed" =>
                /\ Cardinality(DbManagerCalls("commit")) = 1
                /\ \A i \in 1..Len(dbOps), j \in DbManagerCalls("commit") :
                      dbOps[i]["by"] = "body" => i < j
          /\ dbBody # "completed" => DbManagerCalls("commit") = {}
          /\ (DbFirstExc # "none" /\ Catches(DbFirstExc)) =>
                /\ Cardinality(DbCalls("rollback")) = 1
                /\ (dbRollbackExc = "none" /\ dbCloseExc = "none") =>
                      dbRaised = DbFirstExc
          /\ (DbFirstExc # "none" /\ ~Catches(DbFirstExc)) =>
                /\ DbCalls("rollback") = {}
                /\ dbCloseExc = "none" => dbRaised = DbFirstExc
          /\ DbFirstExc = "none" =>
                /\ DbCalls("rollback") = {}
                /\ dbCloseExc = "none" => dbRaised = "none"

\* the manager's commit raised an exception the handler catches: the
\* session was rolled back and closed, and the exception left the with
\* statement
C15_Witness ==
    /\ DbUsed
    /\ dbBody = "completed"
    /\ dbCommitExc = "OperationalError"
    /\ dbOps = <<DbOp("add", "body"), DbOp("commit", "manager"),
                 DbOp("rollback", "manager"), DbOp("close", "manager")>>
    /\ dbRaised = "OperationalError"

(***************************************************************************)
(* Properties of the JSON output script.                                   *)
(***************************************************************************)
\* the last model call returned a content that is not a ProductInfo
JInvalidAttempt == jError \in {"ValueError", "OutputParserException"}

\* C16: the script makes at most max_retries + 1 model calls; an attempt
\* whose content is invalid JSON or fails the ProductInfo validation is
\* followed by a retry whose prompt carries the error as hint, so the
\* script fails on invalid content only once max_retries + 1 attempts were
\* invalid; and it stops at the first attempt that parses.
C16_RetriesUntilValid ==
    /\ jCalls <= jArgs["max_retries"] + 1 \/ jPc = "idle"
    /\ (jPc = "failed" /\ JInvalidAttempt) => jCalls = jArgs["max_retries"] + 1
    /\ jPc = "done" => IsProductInfo(Unfence(jResponse))
    /\ (jPc = "invoke" /\ jAttempt > 0) =>
          Contains(jPrompt, <<"Here is the error encountered:">>) /\ jHint # <<>>

(***************************************************************************)
(* Properties of the retrieval functions.                                  *)
(***************************************************************************)
\* C17: retrieve_documents_with_score returns one (text, score) pair per
\* (document, score) result of the search, in the same order and with the
\* same scores, hence at most k pairs; retrieve_documents returns the texts
\* of the search's results in the same order.
C17_ResultsFollowTheSearch ==
    vStatus = "returned" =>
       /\ Len(vResult) = Len(vFound)
       /\ Len(vResult) <= vCall["k"]
       /\ vCall["function"] = "retrieve_documents_with_score" =>
             \A i \in 1..Len(vFound) :
                /\ vResult[i][1] = vFound[i]["document"]["page_content"]
                /\ vResult[i][2] = vFound[i]["score"]
       /\ vCall["function"] = "retrieve_documents" =>
             \A i \in 1..Len(vFound) :
                vResult[i] = vFound[i]["document"]["page_content"]

\* a scored retrieval returned two results with different texts and scores
C17_Witness ==
    /\ vStatus = "returned"
    /\ vCall = [function |-> "retrieve_documents_with_score", k |-> 2]
    /\ vResult = << <<(<<"b">>), 1>>, <<(<<"a">>), 2>> >>

(***************************************************************************)
(* Properties of the state updates of the graph workflows.                 *)
(***************************************************************************)
\* the request inputs of the Delivery graph and of the HITL graph
DRequestInputs == {"user_request", "user_id", "user_role", "conversation_id"}

HRequestInputs == {"user_input"}

\* the keys the nodes of a superstep returned
Written(updates, nodes) == UNION {DOMAIN updates[n] : n \in nodes}

\* the keys the nodes of the Delivery superstep returned, a node whose body
\* raised counted for errors only
DWritten ==
    {k \in Written(dUpdates, dStepNodes) :
        \E n \in dStepNodes :
            k \in DOMAIN dUpdates[n] /\ (n \in DOMAIN dRaised => k = "errors")}

\* every key outside `written` is in both states with the same value
StepKeeps(old, new, written) ==
    \A k \in (DOMAIN old) \cup (DOMAIN new) :
        k \notin written => k \in DOMAIN old /\ k \in DOMAIN new /\ new[k] = old[k]

\* the keys of `inputs` the old state has keep their values
KeepsInputs(old, new, inputs) ==
    \A k \in inputs \cap DOMAIN old : k \in DOMAIN new /\ new[k] = old[k]

\* C18: a step of a graph workflow changes only the state keys its nodes'
\* updates contain and every other key keeps its value; no step of the
\* Delivery or HITL graph changes a request input; a Delivery node whose
\* body raised changes no key other than errors.
C18_UpdatesChangeOnlyTheirKeys ==
    [][/\ hState' # hState => StepKeeps(hState, hState', DOMAIN hUpdate')
       /\ dState' # dState => StepKeeps(dState, dState', DWritten)
       /\ pState' # pState => StepKeeps(pState, pState', Written(pUpdates, pStepNodes))
       /\ sqState' # sqState => StepKeeps(sqState, sqState', Written(sqUpdates, sqStepNodes))
       /\ swState' # swState => StepKeeps(swState, swState', Written(swUpdates, swStepNodes))
       /\ hrState' # hrState => StepKeeps(hrState, hrState', Written(hrUpdates, hrStepNodes))
       /\ KeepsInputs(hState, hState', HRequestInputs)
       /\ KeepsInputs(dState, dState', DRequestInputs)]_vars

\* a Delivery run ended in which the body of risk_agent raised while other
\* nodes wrote their outputs
C18_Witness ==
    /\ dStatus = "done"
    /\ "risk_agent" \in DOMAIN dRaised
    /\ dState["errors"] # <<>>
    /\ dState["risk_report"] = EmptyDict
    /\ dState["dependency_analysis"] # EmptyDict
    /\ dState["user_request"] \in UserRequests

====
